---- MODULE Spec2Model ----
(***************************************************************************)
(* Model of the Xboinc submission queue writer (xboinc/submit.py,          *)
(* JobManager) and of the binary input/state codec                         *)
(* (xboinc/simulation_io/input.py, output.py).                             *)
(*                                                                         *)
(* Strings are sequences of one-character strings, so that the delimiter   *)
(* test, the file names and their lexical order are computed, not assumed. *)
(* Time is counted in ticks, TicksPerMs ticks to the millisecond.          *)
(***************************************************************************)
EXTENDS Integers, Sequences, FiniteSets, TLC

\* ------------------------------------------------------------------ bounds
TicksPerMs == 2
StartMs == 998
MaxElapsedTicks == 5
MaxJobs == 2
MaxFaults == 1
NumDeps == 2
DefaultCapacity == 4

MaxKills == 2

MaxIterations == 2

\* largest buffer, in words, that is handed to _shrink
MaxWords == 4

\* number of processes that encode inputs
NumProcesses == 2

\* number of encodings followed
MaxEncodings == 3

\* number of JobManager instances that exist side by side
NumInstances == 2

VARIABLES
    jm,          \* the JobManager instance and its fields (alive once constructed)
    fs,          \* the file system: fs.tmp is the staging directory, fs.target the shared one
    clock,       \* wall-clock time in ticks
    pc,          \* position of the running submit() call, "idle" between calls
    idx,         \* loop index of the running submit() call
    last,        \* the last call made by the user and how it ended
    scan,        \* what the consumer saw at its last scan of the target directory
    faults,      \* number of file system failures injected so far
    nAdded,      \* number of add() calls that returned normally
    nSubmitOk,   \* number of submit() calls that returned normally
    creq,        \* codec: the simulation request
    cobj,        \* codec: the XbInput built from the request, if any
    cst,         \* codec: the XbState built on its own from the request, if any
    cfiles,      \* codec: the files written, each absent (<<>>) or <<its words>>
    ctampered,   \* codec: the files whose version header was overwritten
    cloaded,     \* codec: the object returned by from_binary, if any
    cres,        \* codec: the last codec call and how it ended
    erun,        \* engine: the process, "stopped", "running" or "done"
    ebuf,        \* engine: the input buffer held in memory while the process runs
    eckpt,       \* engine: the checkpoint file, absent (<<>>) or <<its words>>
    eout,        \* engine: the output file, absent (<<>>) or <<its words>>
    ekills,      \* engine: number of times the process was interrupted
    estart,      \* engine: where the last process start took its state from
    rdir,        \* retriever: the output directory, archive name -> members
    riter,       \* retriever: the running iterate() generator
    rlog,        \* retriever: what the iterate() calls handed to the caller so far
    rcalls,      \* retriever: number of iterate() calls made
    vmods,       \* versions: __version__ of every dependency module
    vhdr,        \* versions: the XbVersion instance under test, if any
    vres,        \* versions: the last version check and how it ended
    dproc,       \* encoder: the process in which the next XbInput is built
    dstored,     \* encoder: per process, what _build_line_metadata has stored by line
    dlog,        \* encoder: the encodings made so far, each with its request and file
    pinst,       \* instances: the JobManager instances constructed side by side
    ptarget,     \* instances: the target directory they publish to, name -> publisher
    pclock,      \* instances: wall-clock time in ticks
    plost,       \* instances: the published archives that another instance overwrote
    pstaged,     \* instances: the staging directory they share, name -> writer
    padd,        \* instances: when the sleep of a running add() ends, -1 outside add()
    sbuf,        \* shrinking: the buffer
    sold         \* shrinking: the buffer as the last _shrink found it, if that was the last step

\* --------------------------------------------------------------- strings
Delim == <<"_", "_">>

JsonExt == <<".", "j", "s", "o", "n">>

BinExt == <<".", "b", "i", "n">>

TarExt == <<".", "t", "a", "r", ".", "g", "z">>

\* `"__" in name` of Python: the delimiter occurs as a substring
HasDelimFrom(s, i) ==
    /\ i + 1 <= Len(s)
    /\ s[i] = "_"
    /\ s[i + 1] = "_"

ContainsDelim(s) == \E i \in 1..Len(s) : HasDelimFrom(s, i)

DigitChars == <<"0", "1", "2", "3", "4", "5", "6", "7", "8", "9">>

RECURSIVE Pad(_, _)
\* zero-padded decimal rendering of n on w characters
Pad(n, w) == IF w = 0 THEN <<>> ELSE Pad(n \div 10, w - 1) \o <<DigitChars[(n % 10) + 1]>>

\* character order of the characters used in file names (ASCII order)
CharOrder == <<".", "0", "1", "2", "3", "4", "5", "6", "7", "8", "9", "_",
               "a", "b", "g", "i", "j", "n", "o", "r", "s", "t", "u", "x", "y", "z">>

Ord(c) == CHOOSE i \in 1..Len(CharOrder) : CharOrder[i] = c

RECURSIVE LexLess(_, _)
\* s sorts strictly before t
LexLess(s, t) ==
    IF t = <<>> THEN FALSE
    ELSE IF s = <<>> THEN TRUE
    ELSE IF Head(s) = Head(t) THEN LexLess(Tail(s), Tail(t))
    ELSE Ord(Head(s)) < Ord(Head(t))

IsPrefix(p, s) == Len(p) <= Len(s) /\ SubSeq(s, 1, Len(p)) = p

IsSuffix(p, s) == Len(p) <= Len(s) /\ SubSeq(s, Len(s) - Len(p) + 1, Len(s)) = p

\* a file name without its extension e
StripExt(s, e) == SubSeq(s, 1, Len(s) - Len(e))

RECURSIVE SplitDelim(_)
\* `s.split("__")` of Python: the pieces between the occurrences of the
\* delimiter, found from left to right without overlap
SplitDelim(s) ==
    IF ~ContainsDelim(s) THEN <<s>>
    ELSE LET i == CHOOSE k \in 1..Len(s) :
                        HasDelimFrom(s, k) /\ \A m \in 1..(k - 1) : ~HasDelimFrom(s, m)
         IN  <<SubSeq(s, 1, i - 1)>> \o SplitDelim(SubSeq(s, i + Len(Delim), Len(s)))

\* ------------------------------------------------------------- time stamp
\* timestamp(ms): wall-clock time rendered with fixed-width fields, seconds
\* resolution by default and millisecond resolution with ms=True
Timestamp(ticks, ms) ==
    LET millis == ticks \div TicksPerMs
        secs == (millis \div 1000) % 100
    IN  IF ms THEN Pad(secs, 2) \o <<".">> \o Pad(millis % 1000, 3)
        ELSE Pad(secs, 2)

\* sleep(0.001): the call returns no earlier than one millisecond later
NoSleepTicks == 0 * TicksPerMs

SleepTicks == 1 * TicksPerMs

\* ------------------------------------------------------------ file system
NoFiles == [n \in {} |-> 0]

Put(dir, n, c) == [x \in (DOMAIN dir) \cup {n} |-> IF x = n THEN c ELSE dir[x]]

Del(dir, n) == [x \in (DOMAIN dir) \ {n} |-> dir[x]]

\* caller-supplied keyword extras override the fields of the same name
MergeDict(base, kw) ==
    [k \in (DOMAIN base) \cup (DOMAIN kw) |-> IF k \in DOMAIN kw THEN kw[k] ELSE base[k]]

\* ------------------------------------------------------------------ buffers
\* An xobjects buffer in 8-byte words: the stored words and the list of free
\* chunks [start, end) of its allocator.  Offsets count from 0.
NewBuffer(capacity) ==
    [data |-> [i \in 1..capacity |-> 0], chunks |-> <<[start |-> 0, end |-> capacity]>>]

Capacity(b) == Len(b.data)

RECURSIVE ChunkSum(_)
ChunkSum(cs) == IF cs = <<>> THEN 0 ELSE (Head(cs).end - Head(cs).start) + ChunkSum(Tail(cs))

\* buffer.get_free()
GetFree(b) == ChunkSum(b.chunks)

\* the word stored at offset o
WordAt(b, o) == b.data[o + 1]

WriteWords(b, o, ws) ==
    [b EXCEPT !.data = [i \in 1..Len(@) |->
                            IF i > o /\ i <= o + Len(ws) THEN ws[i - o] ELSE @[i]]]

\* buffer.grow: a larger native buffer, the old words copied, the free space at the end
Grow(b, extra) ==
    LET old == Capacity(b)
        new == 2 * old + extra
        end_chunk == IF b.chunks = <<>> THEN [start |-> 0, end |-> 0] ELSE b.chunks[Len(b.chunks)]
    IN  [data |-> [i \in 1..new |-> IF i <= old THEN b.data[i] ELSE 0],
         chunks |-> IF b.chunks # <<>> /\ end_chunk.end = old
                    THEN [b.chunks EXCEPT ![Len(b.chunks)].end = new]
                    ELSE b.chunks \o <<[start |-> old, end |-> new]>>]

Fitting(b, size) == {i \in 1..Len(b.chunks) : b.chunks[i].end - b.chunks[i].start >= size}

RemoveAt(seq, i) == SubSeq(seq, 1, i - 1) \o SubSeq(seq, i + 1, Len(seq))

RECURSIVE Allocate(_, _)
\* buffer.allocate: first free chunk that fits, growing the buffer when none does
Allocate(b, size) ==
    IF Fitting(b, size) = {} THEN Allocate(Grow(b, size), size)
    ELSE LET i == CHOOSE k \in Fitting(b, size) : \A m \in Fitting(b, size) : k <= m
             c == b.chunks[i]
         IN  [buf |-> [b EXCEPT !.chunks = IF c.end - c.start = size
                                           THEN RemoveAt(@, i)
                                           ELSE [@ EXCEPT ![i].start = c.start + size]],
              off |-> c.start]

\* allocate room for the words ws and store them
Store(b, ws) ==
    LET a == Allocate(b, Len(ws))
    IN  [buf |-> WriteWords(a.buf, a.off, ws), off |-> a.off]

\* new capacity chosen by _shrink
ShrunkCapacity(b) == Capacity(b) - GetFree(b)

\* _shrink: drop the free capacity, keeping the first new_capacity words
Shrink(b) ==
    IF GetFree(b) > 0
    THEN [data |-> SubSeq(b.data, 1, ShrunkCapacity(b)), chunks |-> <<>>]
    ELSE b

\* ----------------------------------------------------------------- versions
\* XbVersion: the schema version followed by one word per dependency library
ExpectedVersion == [i \in 1..(1 + NumDeps) |-> 10 + i]

VersionSize == Len(ExpectedVersion)

\* XbVersion.assert_version: exact equality with the expected fingerprint
VersionMatches(words) == words = ExpectedVersion

\* the expected __version__ of every dependency module, as in the fingerprint
ExpectedModules == [i \in 1..NumDeps |-> ExpectedVersion[1 + i]]

\* every module reports its expected version or a later one
AtLeastExpected(mods) == \A i \in 1..NumDeps : mods[i] >= ExpectedModules[i]

\* assert_versions: every dependency module reports exactly its expected version
AssertVersionsPasses(mods) == mods = ExpectedModules

\* --------------------------------------------------------------- structures
\* fields of XbInput and of XbState in declaration order; _version takes
\* VersionSize words, every other field of the static part one word
XbInputFields ==
    <<"_version", "num_turns", "num_elements", "ele_start", "ele_stop", "checkpoint_every",
      "num_monitors", "idx_monitors", "size_monitors", "line_metadata", "xb_state">>

XbStateFields == <<"_version", "_i_turn", "_xsize", "_monitors_metadata", "_particles">>

FieldSize(name) == IF name = "_version" THEN VersionSize ELSE 1

RECURSIVE FieldsSize(_)
FieldsSize(fields) == IF fields = <<>> THEN 0 ELSE FieldSize(Head(fields)) + FieldsSize(Tail(fields))

\* field.offset; -1 when the structure has no such field
FieldOffset(fields, name) ==
    IF \E i \in 1..Len(fields) : fields[i] = name
    THEN FieldsSize(SubSeq(fields, 1, (CHOOSE i \in 1..Len(fields) : fields[i] = name) - 1))
    ELSE -1

\* element kinds and the size in words of an element of each kind
DriftKind == 1

MultipoleKind == 2

MonitorKind == 3

SupportedKinds == {DriftKind, MultipoleKind, MonitorKind}

KindSize(kind) == IF kind = MonitorKind THEN 3 ELSE IF kind = MultipoleKind THEN 2 ELSE 1

WordsPerParticle == 3

RECURSIVE Flatten(_)
Flatten(seqs) == IF seqs = <<>> THEN <<>> ELSE Head(seqs) \o Flatten(Tail(seqs))

\* line.elements: the element of every position of the line
LineElements(line) ==
    [i \in 1..Len(line.element_names) |->
        LET it == CHOOSE k \in 1..Len(line.element_dict) :
                        line.element_dict[k].name = line.element_names[i]
        IN  line.element_dict[it].element]

\* list.index(name), counted from 0
IndexOf(names, name) == (CHOOSE i \in 1..Len(names) :
                            names[i] = name /\ \A k \in 1..(i - 1) : names[k] # name) - 1

\* _check_compatible_elements
CompatibleElements(line) ==
    \A i \in 1..Len(line.element_names) : LineElements(line)[i].kind \in SupportedKinds

RECURSIVE StoreElements(_, _, _, _)
\* copy the elements into the buffer one by one and record each one's kind and
\* offset in the reference table at refs
StoreElements(b, elems, refs, i) ==
    IF i > Len(elems) THEN b
    ELSE LET st == Store(b, elems[i].data)
         IN  StoreElements(WriteWords(st.buf, refs + 2 * (i - 1), <<elems[i].kind, st.off>>),
                           elems, refs, i + 1)

\* the dictionary the module keeps, holding what earlier calls stored
StoredLineCache == dstored[dproc]

\* _previous_line_cache as _build_line_metadata looks the line up in it: the
\* dictionary the function has just created, which holds nothing
PreviousLineCache == NoFiles

\* what the ElementRefData returned for the line holds: that of the entry
\* found under the line, else the line and the flag of this call
MetadataSource(line, store_element_names) ==
    IF line \in DOMAIN PreviousLineCache THEN PreviousLineCache[line]
    ELSE [line |-> line, names |-> store_element_names]

\* an ElementRefData block [number of elements, number of names, (kind,
\* offset) per element, names], followed by the elements
ElementRefData(src, b) ==
    LET elems == LineElements(src.line)
        names == IF src.names THEN src.line.element_names ELSE <<>>
        head == Store(b, <<Len(elems), Len(names)>> \o [i \in 1..(2 * Len(elems)) |-> 0] \o names)
    IN  [buf |-> StoreElements(head.buf, elems, head.off + 2, 1), off |-> head.off]

\* _build_line_metadata
BuildLineMetadata(line, b, store_element_names) ==
    ElementRefData(MetadataSource(line, store_element_names), b)

\* _previous_line_cache[line_id] = element_ref_data, when the line was not found
StoreInCache(stored, line, store_element_names) ==
    IF line \in DOMAIN PreviousLineCache THEN stored
    ELSE Put(stored, line, [line |-> line, names |-> store_element_names])

\* the particle block with the x and state columns exchanged
ParticleWordsSwapped(parts) ==
    <<Len(parts)>> \o Flatten([i \in 1..Len(parts) |-> <<parts[i].state, parts[i].x, parts[i].at_turn>>])

\* the particle block: the number of particles, then x, state and at_turn of each
ParticleWords(parts) ==
    <<Len(parts)>> \o Flatten([i \in 1..Len(parts) |-> <<parts[i].x, parts[i].state, parts[i].at_turn>>])

\* XbState.__init__ with a monitor line, in the buffer b.  _xsize is left
\* for the caller to set.
BuildXbState(parts, monitor_line, i_turn, b, store_element_names) ==
    LET st == Store(b, ExpectedVersion \o <<i_turn, 0, 0>> \o ParticleWords(parts))
        mm == BuildLineMetadata(monitor_line, st.buf, store_element_names)
    IN  [buf |-> WriteWords(mm.buf, st.off + FieldOffset(XbStateFields, "_monitors_metadata"),
                            <<mm.off>>),
         off |-> st.off]

\* ------------------------------------------------------------------- views
WordsAt(b, o, n) == [i \in 1..n |-> WordAt(b, o + i - 1)]

\* an Int64 array: its length, then its items
ArrayAt(b, o) == WordsAt(b, o + 1, WordAt(b, o))

ElementAt(b, kind, o) == [kind |-> kind, data |-> WordsAt(b, o, KindSize(kind))]

LineMetadataAt(b, o) ==
    LET n == WordAt(b, o)
    IN  [elements |-> [i \in 1..n |-> ElementAt(b, WordAt(b, o + 2 * i), WordAt(b, o + 2 * i + 1))],
         names |-> WordsAt(b, o + 2 + 2 * n, WordAt(b, o + 1))]

ParticlesAt(b, o) ==
    [i \in 1..WordAt(b, o) |->
        [x |-> WordAt(b, o + 1 + WordsPerParticle * (i - 1)),
         state |-> WordAt(b, o + 2 + WordsPerParticle * (i - 1)),
         at_turn |-> WordAt(b, o + 3 + WordsPerParticle * (i - 1))]]

\* the fields of the XbState at offset o
StateAt(b, o) ==
    [version |-> WordsAt(b, o, VersionSize),
     i_turn |-> WordAt(b, o + FieldOffset(XbStateFields, "_i_turn")),
     xsize |-> WordAt(b, o + FieldOffset(XbStateFields, "_xsize")),
     particles |-> ParticlesAt(b, o + FieldOffset(XbStateFields, "_particles")),
     monitors |-> LineMetadataAt(b, WordAt(b, o + FieldOffset(XbStateFields, "_monitors_metadata")))]

\* the fields of the XbInput at offset o
InputAt(b, o) ==
    [version |-> WordsAt(b, o, VersionSize),
     num_turns |-> WordAt(b, o + FieldOffset(XbInputFields, "num_turns")),
     num_elements |-> WordAt(b, o + FieldOffset(XbInputFields, "num_elements")),
     ele_start |-> WordAt(b, o + FieldOffset(XbInputFields, "ele_start")),
     ele_stop |-> WordAt(b, o + FieldOffset(XbInputFields, "ele_stop")),
     checkpoint_every |-> WordAt(b, o + FieldOffset(XbInputFields, "checkpoint_every")),
     num_monitors |-> WordAt(b, o + FieldOffset(XbInputFields, "num_monitors")),
     idx_monitors |-> ArrayAt(b, WordAt(b, o + FieldOffset(XbInputFields, "idx_monitors"))),
     size_monitors |-> ArrayAt(b, WordAt(b, o + FieldOffset(XbInputFields, "size_monitors"))),
     line_metadata |-> LineMetadataAt(b, WordAt(b, o + FieldOffset(XbInputFields, "line_metadata"))),
     xb_state |-> StateAt(b, WordAt(b, o + FieldOffset(XbInputFields, "xb_state")))]

\* ------------------------------------------------------------------ XbInput
IsMonitorItem(it) == it.element.kind = MonitorKind

\* the monitors-only line collected by XbInput.__init__
MonitorLine(line) ==
    LET mons == SelectSeq(line.element_dict, IsMonitorItem)
    IN  [element_names |-> [i \in 1..Len(mons) |-> mons[i].name], element_dict |-> mons]

\* particles.start_tracking_at_element as XbInput.__init__ sees it: particles
\* is None when the caller passes xb_state instead, and then has no such field
StartAt(req) == IF req.source \in {"particles", "both"} THEN req.particles.start_at ELSE -1

\* max(0, ele_start)
ClampStart(start) == IF start < 0 THEN 0 ELSE start

\* self.ele_start after the start element is handled
EleStart(req) == ClampStart(IF StartAt(req) >= 0 THEN StartAt(req) ELSE req.ele_start)

\* a caller may pass particles together with xb_state
NeverBoth(req) == FALSE

\* particles is not None and xb_state is not None
BothGiven(req) == req.source = "both"

\* how XbInput.__init__ ends for the request req
XbInputRaises(req) ==
    LET n == Len(req.line.element_names)
    IN  IF BothGiven(req) THEN "ValueError"
        ELSE IF ~CompatibleElements(req.line) THEN "ValueError"
        ELSE IF req.source = "neither" THEN "ValueError"
        ELSE IF StartAt(req) >= 0 /\ req.ele_start # 0 THEN "ValueError"
        ELSE IF ~(0 <= EleStart(req) /\ EleStart(req) <= n) THEN "AssertionError"
        ELSE IF ~(req.num_turns > 0) THEN "AssertionError"
        ELSE IF req.ele_stop # -1 /\ ~(0 <= req.ele_stop /\ req.ele_stop <= n) THEN "AssertionError"
        ELSE "ok"

\* the turn count is stored as requested
NoExtraTurn(req) == req.num_turns

\* self.num_turns at the end: one more turn when an explicit ele_stop does
\* not lie after ele_start
StoredTurns(req) ==
    IF req.ele_stop # -1 /\ req.ele_stop <= EleStart(req) THEN req.num_turns + 1 ELSE req.num_turns

\* the caller's values for the monitor fields are kept where given
KeepCallerMonitors(caller, computed) == MergeDict(computed, caller)

\* kwargs as passed to the parent constructor: the three monitor fields
\* computed from the line replace whatever the caller passed for them
MonitorKwargs(caller, computed) == MergeDict(caller, computed)

\* every input asks for a checkpoint after each turn
CheckpointEveryTurn(req) == 1

\* the checkpoint_every field: the caller's value, -1 when the caller gave none
CheckpointEvery(req) == req.checkpoint_every

\* the buffer XbInput.__init__ works in: a new one, or, when the caller passes
\* xb_state, the buffer the caller built that state in and passes as _buffer
InputBuffer(req) ==
    IF req.source = "xb_state"
    THEN BuildXbState(req.particles.parts, MonitorLine(req.line), 0,
                      NewBuffer(DefaultCapacity), req.store_element_names)
    ELSE [buf |-> NewBuffer(DefaultCapacity), off |-> -1]

\* the three monitor fields XbInput.__init__ computes from the line
ComputedMonitors(line) ==
    LET mline == MonitorLine(line)
        nmon == Len(mline.element_names)
    IN  [num_monitors |-> nmon,
         idx_monitors |-> [i \in 1..nmon |-> IndexOf(line.element_names, mline.element_names[i])],
         size_monitors |-> [i \in 1..nmon |-> KindSize(mline.element_dict[i].element.kind)]]

\* the parent constructor allocates the structure in the buffer it is given
\* and points xb_state at the state the caller passed, if any; what is placed
\* so far is kept as the buffer and the offset of every block
PlaceStruct(given) ==
    LET me == Allocate(given.buf, FieldsSize(XbInputFields))
    IN  [buf |-> me.buf, me |-> me.off, idx |-> -1, siz |-> -1, lm |-> -1, st |-> given.off]

\* the parent constructor stores one of the two monitor arrays
PlaceArray(s, field, items) ==
    LET a == Store(s.buf, <<Len(items)>> \o items)
    IN  [s EXCEPT !.buf = a.buf, ![field] = a.off]

\* self.line_metadata = self._build_line_metadata(...)
PlaceLine(s, line, store_element_names) ==
    LET lm == BuildLineMetadata(line, s.buf, store_element_names)
    IN  [s EXCEPT !.buf = lm.buf, !.lm = lm.off]

\* the state's turn counter starts at the number of turns asked for
TurnsAskedFor(req) == req.num_turns

\* _i_turn=0: the turn counter of the state built for the input
StateTurn(req) == 0

\* self.xb_state = XbState(particles=..., _buffer=self._buffer), only when
\* the caller passes particles
PlaceState(s, req) ==
    IF req.source = "xb_state" THEN s
    ELSE LET st == BuildXbState(req.particles.parts, MonitorLine(req.line), StateTurn(req),
                                s.buf, req.store_element_names)
         IN  [s EXCEPT !.buf = st.buf, !.st = st.off]

\* the scalar fields and the references of the structure, then _shrink
FillFields(s, req, kwargs) ==
    LET n == Len(req.line.element_names)
        ele_stop == IF req.ele_stop = -1 THEN n ELSE req.ele_stop
    IN  [s EXCEPT !.buf = Shrink(WriteWords(s.buf, s.me,
                        ExpectedVersion \o <<StoredTurns(req), n, EleStart(req), ele_stop,
                                             CheckpointEvery(req), kwargs.num_monitors,
                                             s.idx, s.siz, s.lm, s.st>>))]

\* self.xb_state._xsize = self._buffer.capacity - self.xb_state._offset
SetXsize(s) ==
    [buf |-> WriteWords(s.buf, s.st + FieldOffset(XbStateFields, "_xsize"),
                        <<Capacity(s.buf) - s.st>>),
     offset |-> s.me]

\* XbInput.__init__: the parent constructor places the structure and the two
\* monitor arrays and points xb_state at the state the caller passed, if any;
\* then the line metadata is built; then, when the caller passes particles,
\* the state; at the end the buffer is shrunk and the state's size is set to
\* what lies from its offset to the end of the buffer
XbInputInit(req) ==
    LET kwargs == MonitorKwargs(req.kwargs, ComputedMonitors(req.line))
    IN  SetXsize(FillFields(
            PlaceState(
                PlaceLine(
                    PlaceArray(PlaceArray(PlaceStruct(InputBuffer(req)),
                                          "idx", kwargs.idx_monitors),
                               "siz", kwargs.size_monitors),
                    req.line, req.store_element_names),
                req),
            req, kwargs))

\* to_binary writes from wherever the structure starts
AnyOffset(offset) == TRUE

\* assert self._offset == 0
OffsetAsserted(offset) == offset = 0

\* XbInput.to_binary: shrink the buffer, then dump it
InputToBinary(obj) ==
    LET b == Shrink(obj.buf)
    IN  [status |-> IF OffsetAsserted(obj.offset) THEN "ok" ELSE "AssertionError",
         obj |-> [obj EXCEPT !.buf = b],
         file |-> b.data]

\* XbState.to_binary: dump the buffer as it is
StateToBinary(obj) ==
    [status |-> IF OffsetAsserted(obj.offset) THEN "ok" ELSE "AssertionError",
     obj |-> obj,
     file |-> obj.buf.data]

\* from_binary goes on to decode after the version check
DecodesAnyway(matches) == TRUE

DecodesAfterCheck(matches) == matches

\* a header that does not match raises whatever the caller asked for
AlwaysRaises(matches, raise_version_error) == ~matches

\* assert_version(raise_error=raise_version_error, ...) raises
VersionRaises(matches, raise_version_error) == ~matches /\ raise_version_error

\* XbInput.from_binary / XbState.from_binary for the structure with the given
\* fields: the file is copied into a new buffer of its length, the version
\* header is checked and only then is the structure taken from the buffer
FromBinary(fields, file, offset, raise_version_error) ==
    LET buffer_data == [NewBuffer(Len(file)) EXCEPT !.data = file]
        version_offset == FieldOffset(fields, "_version")
        matches == VersionMatches(WordsAt(buffer_data, offset + version_offset, VersionSize))
    IN  IF version_offset = -1 THEN [status |-> "ValueError", obj |-> <<>>]
        ELSE IF VersionRaises(matches, raise_version_error) THEN [status |-> "ImportError", obj |-> <<>>]
        ELSE IF ~DecodesAfterCheck(matches) THEN [status |-> "None", obj |-> <<>>]
        ELSE [status |-> "ok", obj |-> <<[buf |-> buffer_data, offset |-> offset]>>]

\* ---------------------------------------------------------------- inputs
Users == {<<"u">>}

StudyNames == {<<"s">>, <<"s", "_">>, <<"s", "_", "_", "t">>}

JobNames == {<<"j">>, <<"_", "_", "j">>}

Domains == {"eos", "afs", "other"}

NoKwargs == [k \in {} |-> 0]

KwargsSet == {NoKwargs, [study_name |-> <<"x", "_", "_", "y">>]}

TurnsSet == {0, 1}

CheckpointSet == {-1}

\* lines, particles and requests offered to the codec
LineA ==
    [element_names |-> <<1, 2>>,
     element_dict |-> <<[name |-> 1, element |-> [kind |-> DriftKind, data |-> <<7>>]],
                        [name |-> 2, element |-> [kind |-> MultipoleKind, data |-> <<3, 4>>]]>>]

LineB ==
    [element_names |-> <<1, 3, 1>>,
     element_dict |-> <<[name |-> 1, element |-> [kind |-> DriftKind, data |-> <<7>>]],
                        [name |-> 3, element |-> [kind |-> MonitorKind, data |-> <<0, 1, 9>>]]>>]

\* a line that passes through the same monitor twice
LineC ==
    [element_names |-> <<3, 1, 3>>,
     element_dict |-> <<[name |-> 3, element |-> [kind |-> MonitorKind, data |-> <<0, 1, 9>>]],
                        [name |-> 1, element |-> [kind |-> DriftKind, data |-> <<7>>]]>>]

ParticlesA == [parts |-> <<[x |-> 5, state |-> 1, at_turn |-> 0]>>, start_at |-> -1]

ParticlesB ==
    [parts |-> <<[x |-> 5, state |-> 1, at_turn |-> 0], [x |-> -6, state |-> 0, at_turn |-> 0]>>,
     start_at |-> -1]

\* a particle that stays inside the aperture for three turns and one that is lost
ParticlesD ==
    [parts |-> <<[x |-> 2, state |-> 1, at_turn |-> 0], [x |-> 5, state |-> 1, at_turn |-> 0]>>,
     start_at |-> -1]

\* particles that ask to start tracking at the element at position 1
ParticlesC == [parts |-> <<[x |-> 5, state |-> 1, at_turn |-> 0]>>, start_at |-> 1]

\* values a caller passes for the three monitor fields
CallerMonitors == [num_monitors |-> 5, idx_monitors |-> <<9>>, size_monitors |-> <<>>]

\* requests that vary what is encoded
ContentRequests ==
    [num_turns : {0, 2}, ele_start : {0, 1}, ele_stop : {-1, 1}, checkpoint_every : {-1, 1},
     line : {LineA, LineB}, particles : {ParticlesA, ParticlesB}, store_element_names : BOOLEAN,
     source : {"particles"}, kwargs : {NoKwargs}]

\* requests that vary where tracking starts and stops
PositionRequests ==
    [num_turns : {2}, ele_start : {-1, 0, 2, 4}, ele_stop : {-1, 0, 1, 2, 4}, checkpoint_every : {-1},
     line : {LineA, LineB}, particles : {ParticlesA, ParticlesC}, store_element_names : {FALSE},
     source : {"particles", "xb_state"}, kwargs : {NoKwargs}]

\* requests that vary how the state is supplied and what else the caller passes
SourceRequests ==
    [num_turns : {2}, ele_start : {0}, ele_stop : {-1}, checkpoint_every : {-1},
     line : {LineA, LineB}, particles : {ParticlesA, ParticlesB}, store_element_names : BOOLEAN,
     source : {"particles", "xb_state", "both", "neither"}, kwargs : {NoKwargs, CallerMonitors}]

\* requests on a line with a repeated monitor
MonitorRequests ==
    [num_turns : {2}, ele_start : {0}, ele_stop : {-1}, checkpoint_every : {-1},
     line : {LineC}, particles : {ParticlesA}, store_element_names : BOOLEAN,
     source : {"particles"}, kwargs : {NoKwargs}]

Requests == ContentRequests \cup PositionRequests \cup SourceRequests \cup MonitorRequests

\* the XbInput request made by JobManager.add
AddRequest(num_turns, checkpoint_every) ==
    [num_turns |-> num_turns, ele_start |-> 0, ele_stop |-> -1,
     checkpoint_every |-> checkpoint_every,
     line |-> LineA, particles |-> ParticlesA, store_element_names |-> FALSE,
     source |-> "particles", kwargs |-> NoKwargs]


jvars == <<jm, fs, clock, pc, idx, last, scan, faults, nAdded, nSubmitOk>>

cvars == <<creq, cobj, cst, cfiles, ctampered, cloaded, cres>>

evars == <<erun, ebuf, eckpt, eout, ekills, estart>>

rvars == <<rdir, riter, rlog, rcalls>>

vvars == <<vmods, vhdr, vres>>

dvars == <<dproc, dstored, dlog>>

pvars == <<pinst, ptarget, pclock, plost, pstaged, padd>>

svars == <<sbuf, sold>>

vars == <<jm, fs, clock, pc, idx, last, scan, faults, nAdded, nSubmitOk,
          creq, cobj, cst, cfiles, ctampered, cloaded, cres,
          erun, ebuf, eckpt, eout, ekills, estart,
          rdir, riter, rlog, rcalls,
          vmods, vhdr, vres,
          dproc, dstored, dlog,
          pinst, ptarget, pclock, plost, pstaged, padd,
          sbuf, sold>>

MaxClock == StartMs * TicksPerMs + MaxElapsedTicks

\* the Python processes in which inputs are encoded
Processes == 1..NumProcesses

\* the JobManager instances that exist side by side
Instances == 1..NumInstances

\* no instance constructed yet
NoJm ==
    [alive |-> FALSE, user |-> <<>>, domain |-> "none", study_name |-> <<>>, line |-> FALSE,
     submit_file |-> <<>>, json_files |-> <<>>, bin_files |-> <<>>, submitted |-> FALSE]

JmIdle ==
    /\ jm = NoJm
    /\ fs = [tmp |-> NoFiles, target |-> NoFiles]
    /\ clock = StartMs * TicksPerMs
    /\ pc = "idle"
    /\ idx = 0
    /\ last = [op |-> "none", result |-> "none"]
    /\ scan = NoFiles
    /\ faults = 0
    /\ nAdded = 0
    /\ nSubmitOk = 0

CodecIdle ==
    /\ cobj = <<>>
    /\ cst = <<>>
    /\ cfiles = [input |-> <<>>, state |-> <<>>, copy |-> <<>>, embedded |-> <<>>]
    /\ ctampered = {}
    /\ cloaded = <<>>
    /\ cres = [op |-> "none", status |-> "none", file |-> "none", raise |-> FALSE]

\* no engine process has run: no checkpoint file, no output file
EngineIdle ==
    /\ erun = "stopped"
    /\ ebuf = <<>>
    /\ eckpt = <<>>
    /\ eout = <<>>
    /\ ekills = 0
    /\ estart = [from |-> "none", turn |-> 0]

\* an empty output directory and no iterate() call yet
RetrieverIdle ==
    /\ rdir = NoFiles
    /\ riter = [pc |-> "none", todo |-> <<>>, cur |-> 1]
    /\ rlog = <<>>
    /\ rcalls = 0

\* every dependency module at its expected version, no check made yet
VersionIdle ==
    /\ vmods = ExpectedModules
    /\ vhdr = <<>>
    /\ vres = [op |-> "none", status |-> "none", seen |-> <<>>]

\* no XbInput encoded yet in any process
EncoderIdle ==
    /\ dproc = 1
    /\ dstored = [p \in Processes |-> NoFiles]
    /\ dlog = <<>>

\* no instance constructed side by side, an empty target directory
InstancesIdle ==
    /\ pinst = [i \in Instances |-> NoJm]
    /\ ptarget = NoFiles
    /\ pclock = StartMs * TicksPerMs
    /\ plost = {}
    /\ pstaged = NoFiles
    /\ padd = [i \in Instances |-> -1]

\* no buffer is being shrunk
ShrinkIdle ==
    /\ sbuf = NewBuffer(0)
    /\ sold = <<>>

Init ==
    /\ JmIdle
    /\ EncoderIdle
    /\ InstancesIdle
    /\ ShrinkIdle
    /\ CodecIdle
    /\ EngineIdle
    /\ RetrieverIdle
    /\ VersionIdle
    /\ creq = AddRequest(1, -1)

\* ------------------------------------------------------------ JobManager
\* file name of the archive, fixed when the instance is constructed
SubmitFileName(user, study, ticks) ==
    user \o Delim \o study \o Delim \o Timestamp(ticks, FALSE) \o TarExt

\* base name of the two staged files of one job
JobFileName(user, ticks) == user \o Delim \o Timestamp(ticks, TRUE)

\* _assert_not_submitted raises
IgnoresSubmitted(submitted) == FALSE

AssertNotSubmittedRaises(submitted) == submitted

\* the directory in which submit() builds the archive
BuildInTarget == "target"

ArchiveBuildDir == "tmp"

\* the name under which submit() writes the archive
FreshArchiveName(j, ticks) == j.user \o Delim \o j.study_name \o Delim \o Timestamp(ticks, TRUE) \o TarExt

ArchiveName(j, ticks) == j.submit_file

\* the files submit() packages and afterwards deletes
OnlyJsonFiles(j) == j.json_files

StagedFiles(j) == j.json_files \o j.bin_files

\* `self._submitted = True` after the move
NotMarkedSubmitted == FALSE

MarkedSubmitted == TRUE

\* any domain will do
AnyDomainCanMove(d) == TRUE

\* `self._domain in ["eos", "afs"]`
DomainCanMove(d) == d \in {"eos", "afs"}

\* submit() returns without deleting anything
NoCleanup(j) == <<>>

\* the files the clean-up loop of submit() deletes
CleanupFiles(j) == j.json_files \o j.bin_files

Fail(op, err) ==
    /\ last' = [op |-> op, result |-> err]

JmConstructRaises(study, dev_server, versionsOk, domain, eosOk) ==
    IF ~versionsOk THEN "ImportError"
    ELSE IF ~dev_server THEN "NotImplementedError"
    ELSE IF ContainsDelim(study) THEN "ValueError"
    ELSE IF domain = "eos" /\ ~eosOk THEN "AssertionError"
    ELSE "ok"

\* JobManager.__init__
JmInit(user, study, line, dev_server, versionsOk, domain, eosOk) ==
    /\ ~jm.alive
    /\ pc = "idle"
    /\ LET r == JmConstructRaises(study, dev_server, versionsOk, domain, eosOk)
       IN  /\ last' = [op |-> "init", result |-> r]
           /\ jm' = IF r = "ok"
                    THEN [alive |-> TRUE,
                          user |-> user,
                          domain |-> domain,
                          study_name |-> study,
                          line |-> line,
                          submit_file |-> SubmitFileName(user, study, clock),
                          json_files |-> <<>>,
                          bin_files |-> <<>>,
                          submitted |-> FALSE]
                    ELSE jm
    /\ UNCHANGED <<fs, clock, pc, idx, scan, faults, nAdded, nSubmitOk>>
    /\ UNCHANGED <<cvars, evars, rvars, vvars, dvars, pvars, svars>>


\* JobManager.add
Add(job_name, num_turns, line, checkpoint_every, kwargs, elapsed) ==
    /\ jm.alive
    /\ pc = "idle"
    /\ IF AssertNotSubmittedRaises(jm.submitted) THEN
            /\ Fail("add", "ValueError")
            /\ UNCHANGED <<jm, fs, clock, nAdded>>
       ELSE IF ContainsDelim(job_name) THEN
            /\ Fail("add", "ValueError")
            /\ UNCHANGED <<jm, fs, clock, nAdded>>
       ELSE IF ~line /\ ~jm.line THEN
            /\ Fail("add", "ValueError")
            /\ UNCHANGED <<jm, fs, clock, nAdded>>
       ELSE
            /\ Len(jm.json_files) < MaxJobs
            /\ clock + SleepTicks + elapsed <= MaxClock
            /\ clock' = clock + SleepTicks + elapsed
            /\ LET filename == JobFileName(jm.user, clock')
                   json_file == filename \o JsonExt
                   bin_file == filename \o BinExt
                   json_dict == MergeDict([user |-> jm.user,
                                           study_name |-> jm.study_name,
                                           job_name |-> job_name,
                                           num_turns |-> num_turns], kwargs)
                   staged == Put(fs.tmp, json_file, [kind |-> "json", dict |-> json_dict])
                   request == AddRequest(num_turns, checkpoint_every)
               IN  IF XbInputRaises(request) # "ok" THEN
                        /\ fs' = [fs EXCEPT !.tmp = staged]
                        /\ Fail("add", XbInputRaises(request))
                        /\ UNCHANGED <<jm, nAdded>>
                   ELSE
                        /\ fs' = [fs EXCEPT !.tmp =
                                    Put(staged, bin_file,
                                        [kind |-> "bin",
                                         words |-> InputToBinary(XbInputInit(request)).file])]
                        /\ jm' = [jm EXCEPT !.json_files = @ \o <<json_file>>,
                                            !.bin_files = @ \o <<bin_file>>]
                        /\ last' = [op |-> "add", result |-> "ok"]
                        /\ nAdded' = nAdded + 1
    /\ UNCHANGED <<pc, idx, scan, faults, nSubmitOk>>
    /\ UNCHANGED <<cvars, evars, rvars, vvars, dvars, pvars, svars>>

\* submit() also refuses an instance without staged jobs
RefusesEmpty(j) == AssertNotSubmittedRaises(j.submitted) \/ j.json_files = <<>>

\* what makes submit() raise on entry: only _assert_not_submitted
SubmitRefused(j) == AssertNotSubmittedRaises(j.submitted)

\* JobManager.submit, entry: the guard, then tarfile.open(..., "w:gz")
SubmitCall ==
    /\ jm.alive
    /\ pc = "idle"
    /\ IF SubmitRefused(jm) THEN
            /\ Fail("submit", "ValueError")
            /\ UNCHANGED <<fs, pc, idx>>
       ELSE
            /\ fs' = [fs EXCEPT ![ArchiveBuildDir] =
                        Put(@, ArchiveName(jm, clock),
                            [kind |-> "tar", members |-> <<>>, complete |-> FALSE])]
            /\ pc' = "tar"
            /\ idx' = 1
            /\ last' = [op |-> "submit", result |-> "running"]
    /\ UNCHANGED <<jm, clock, scan, faults, nAdded, nSubmitOk>>
    /\ UNCHANGED <<cvars, evars, rvars, vvars, dvars, pvars, svars>>

\* JobManager.submit, one turn of the loop `tar.add(thisfile, arcname=thisfile.name)`
TarAdd ==
    /\ pc = "tar"
    /\ idx <= Len(StagedFiles(jm))
    /\ LET f == StagedFiles(jm)[idx]
           a == ArchiveName(jm, clock)
       IN  IF f \in DOMAIN fs.tmp THEN
                /\ fs' = [fs EXCEPT ![ArchiveBuildDir][a].members =
                                        @ \o <<[name |-> f, content |-> fs.tmp[f]]>>]
                /\ idx' = idx + 1
                /\ UNCHANGED <<pc, last>>
           ELSE
                /\ pc' = "idle"
                /\ idx' = 0
                /\ Fail("submit", "FileNotFoundError")
                /\ UNCHANGED fs
    /\ UNCHANGED <<jm, clock, scan, faults, nAdded, nSubmitOk>>
    /\ UNCHANGED <<cvars, evars, rvars, vvars, dvars, pvars, svars>>

\* JobManager.submit, leaving the `with tarfile.open(...)` block closes the archive
TarClose ==
    /\ pc = "tar"
    /\ idx > Len(StagedFiles(jm))
    /\ fs' = [fs EXCEPT ![ArchiveBuildDir][ArchiveName(jm, clock)].complete = TRUE]
    /\ pc' = "move"
    /\ UNCHANGED <<jm, clock, idx, last, scan, faults, nAdded, nSubmitOk>>
    /\ UNCHANGED <<cvars, evars, rvars, vvars, dvars, pvars, svars>>

\* the move leaves the archive where it was built
LeftInStaging(f, name) == f

\* FsPath.move_to: the archive appears in the target directory in one step
MoveTo(f, name) ==
    [tmp |-> Del(f.tmp, name), target |-> Put(f.target, name, f[ArchiveBuildDir][name])]

\* FsPath.move_to failing after the archive was placed: the source is left behind
MoveToKeepSource(f, name) ==
    [tmp |-> f.tmp, target |-> Put(f.target, name, f[ArchiveBuildDir][name])]

\* JobManager.submit, the domain test, the move and `self._submitted = True`
Move ==
    /\ pc = "move"
    /\ LET a == ArchiveName(jm, clock)
       IN  IF DomainCanMove(jm.domain) THEN
                \/ /\ fs' = MoveTo(fs, a)
                   /\ jm' = [jm EXCEPT !.submitted = MarkedSubmitted]
                   /\ pc' = "unlink"
                   /\ idx' = 1
                   /\ UNCHANGED <<last, faults>>
                \/ /\ faults < MaxFaults
                   /\ faults' = faults + 1
                   /\ \/ fs' = fs
                      \/ fs' = MoveToKeepSource(fs, a)
                   /\ pc' = "idle"
                   /\ idx' = 0
                   /\ Fail("submit", "OSError")
                   /\ UNCHANGED jm
           ELSE
                /\ pc' = "idle"
                /\ idx' = 0
                /\ Fail("submit", "ValueError")
                /\ UNCHANGED <<jm, fs, faults>>
    /\ UNCHANGED <<clock, scan, nAdded, nSubmitOk>>
    /\ UNCHANGED <<cvars, evars, rvars, vvars, dvars, pvars, svars>>

\* JobManager.submit, one turn of the clean-up loop `thisfile.unlink()`
Unlink ==
    /\ pc = "unlink"
    /\ idx <= Len(CleanupFiles(jm))
    /\ LET f == CleanupFiles(jm)[idx]
       IN  IF f \in DOMAIN fs.tmp THEN
                /\ fs' = [fs EXCEPT !.tmp = Del(@, f)]
                /\ idx' = idx + 1
                /\ UNCHANGED <<pc, last>>
           ELSE
                /\ pc' = "idle"
                /\ idx' = 0
                /\ Fail("submit", "FileNotFoundError")
                /\ UNCHANGED fs
    /\ UNCHANGED <<jm, clock, scan, faults, nAdded, nSubmitOk>>
    /\ UNCHANGED <<cvars, evars, rvars, vvars, dvars, pvars, svars>>

\* JobManager.submit returns
SubmitReturn ==
    /\ pc = "unlink"
    /\ idx > Len(CleanupFiles(jm))
    /\ pc' = "idle"
    /\ idx' = 0
    /\ last' = [op |-> "submit", result |-> "ok"]
    /\ nSubmitOk' = nSubmitOk + 1
    /\ UNCHANGED <<jm, fs, clock, scan, faults, nAdded>>
    /\ UNCHANGED <<cvars, evars, rvars, vvars, dvars, pvars, svars>>

\* the consumer polls the shared target directory
Scan ==
    /\ scan' = fs.target
    /\ scan' # scan
    /\ UNCHANGED <<jm, fs, clock, pc, idx, last, faults, nAdded, nSubmitOk>>
    /\ UNCHANGED <<cvars, evars, rvars, vvars, dvars, pvars, svars>>

\* time passes between two calls (only __init__ and add() read the clock)
Tick ==
    /\ pc = "idle"
    /\ clock < MaxClock
    /\ clock' = clock + 1
    /\ UNCHANGED <<jm, fs, pc, idx, last, scan, faults, nAdded, nSubmitOk>>
    /\ UNCHANGED <<cvars, evars, rvars, vvars, dvars, pvars, svars>>

Next ==
    \/ \E u \in Users, s \in StudyNames, l \in BOOLEAN, dev \in BOOLEAN,
          v \in BOOLEAN, d \in Domains, e \in BOOLEAN :
            JmInit(u, s, l, dev, v, d, e)
    \/ \E j \in JobNames, n \in TurnsSet, l \in BOOLEAN, c \in CheckpointSet,
          kw \in KwargsSet, el \in 0..1 :
            Add(j, n, l, c, kw, el)
    \/ SubmitCall
    \/ TarAdd
    \/ TarClose
    \/ Move
    \/ Unlink
    \/ SubmitReturn
    \/ Scan
    \/ Tick

Spec == Init /\ [][Next]_vars

\* -------------------------------------------------------------- codec calls
CodecInit ==
    /\ JmIdle
    /\ EncoderIdle
    /\ InstancesIdle
    /\ ShrinkIdle
    /\ CodecIdle
    /\ EngineIdle
    /\ RetrieverIdle
    /\ VersionIdle
    /\ creq \in Requests

Result(op, status, file, raise) == [op |-> op, status |-> status, file |-> file, raise |-> raise]

\* XbInput(**request)
CBuildInput ==
    /\ cobj = <<>>
    /\ cobj' = IF XbInputRaises(creq) = "ok" THEN <<XbInputInit(creq)>> ELSE <<>>
    /\ cres' = Result("init", XbInputRaises(creq), "none", FALSE)
    /\ UNCHANGED <<creq, cst, cfiles, ctampered, cloaded>>
    /\ UNCHANGED <<jvars, evars, rvars, vvars, dvars, pvars, svars>>

\* XbInput.to_binary(input file)
CInputToBinary ==
    /\ cobj # <<>>
    /\ cfiles.input = <<>>
    /\ LET r == InputToBinary(cobj[1])
       IN  /\ cobj' = <<r.obj>>
           /\ cfiles' = IF r.status = "ok" THEN [cfiles EXCEPT !.input = <<r.file>>] ELSE cfiles
           /\ cres' = Result("to_binary", r.status, "input", FALSE)
    /\ UNCHANGED <<creq, cst, ctampered, cloaded>>
    /\ UNCHANGED <<jvars, evars, rvars, vvars, dvars, pvars, svars>>

\* XbState(particles=..., monitor_line=..., _i_turn=0, _buffer=new buffer)
CBuildState ==
    /\ cst = <<>>
    /\ CompatibleElements(creq.line)
    /\ LET r == BuildXbState(creq.particles.parts, MonitorLine(creq.line), 0,
                             NewBuffer(DefaultCapacity), creq.store_element_names)
       IN  cst' = <<[buf |-> r.buf, offset |-> r.off]>>
    /\ cres' = Result("init", "ok", "none", FALSE)
    /\ UNCHANGED <<creq, cobj, cfiles, ctampered, cloaded>>
    /\ UNCHANGED <<jvars, evars, rvars, vvars, dvars, pvars, svars>>

\* XbState.to_binary(state file)
CStateToBinary ==
    /\ cst # <<>>
    /\ cfiles.state = <<>>
    /\ LET r == StateToBinary(cst[1])
       IN  /\ cfiles' = IF r.status = "ok" THEN [cfiles EXCEPT !.state = <<r.file>>] ELSE cfiles
           /\ cres' = Result("to_binary", r.status, "state", FALSE)
    /\ UNCHANGED <<creq, cobj, cst, ctampered, cloaded>>
    /\ UNCHANGED <<jvars, evars, rvars, vvars, dvars, pvars, svars>>

\* the XbState inside the constructed XbInput
EmbeddedState ==
    [buf |-> cobj[1].buf,
     offset |-> WordAt(cobj[1].buf, cobj[1].offset + FieldOffset(XbInputFields, "xb_state"))]

\* input.xb_state.to_binary(embedded file)
CEmbeddedToBinary ==
    /\ cobj # <<>>
    /\ cfiles.embedded = <<>>
    /\ LET r == StateToBinary(EmbeddedState)
       IN  /\ cfiles' = IF r.status = "ok" THEN [cfiles EXCEPT !.embedded = <<r.file>>] ELSE cfiles
           /\ cres' = Result("to_binary", r.status, "embedded", FALSE)
    /\ UNCHANGED <<creq, cobj, cst, ctampered, cloaded>>
    /\ UNCHANGED <<jvars, evars, rvars, vvars, dvars, pvars, svars>>

\* somebody overwrites one word of the version header of a file
CTamper(f, i) ==
    /\ cfiles[f] # <<>>
    /\ f \notin ctampered
    /\ cloaded = <<>>
    /\ cfiles' = [cfiles EXCEPT ![f] = <<[@[1] EXCEPT ![i + 1] = 0]>>]
    /\ ctampered' = ctampered \cup {f}
    /\ UNCHANGED <<creq, cobj, cst, cloaded, cres>>
    /\ UNCHANGED <<jvars, evars, rvars, vvars, dvars, pvars, svars>>

\* XbInput.from_binary(input file) or XbState.from_binary(state file)
CFromBinary(f, raise_version_error) ==
    /\ cfiles[f] # <<>>
    /\ cloaded = <<>>
    /\ LET r == FromBinary(IF f = "input" THEN XbInputFields ELSE XbStateFields,
                           cfiles[f][1], 0, raise_version_error)
       IN  /\ cloaded' = IF r.obj = <<>> THEN <<>>
                         ELSE <<[kind |-> f, buf |-> r.obj[1].buf, offset |-> r.obj[1].offset]>>
           /\ cres' = Result("from_binary", r.status, f, raise_version_error)
    /\ UNCHANGED <<creq, cobj, cst, cfiles, ctampered>>
    /\ UNCHANGED <<jvars, evars, rvars, vvars, dvars, pvars, svars>>

\* to_binary(copy) on the object that from_binary returned
CLoadedToBinary ==
    /\ cloaded # <<>>
    /\ cfiles.copy = <<>>
    /\ LET o == [buf |-> cloaded[1].buf, offset |-> cloaded[1].offset]
           r == IF cloaded[1].kind = "input" THEN InputToBinary(o) ELSE StateToBinary(o)
       IN  /\ cloaded' = <<[kind |-> cloaded[1].kind, buf |-> r.obj.buf, offset |-> r.obj.offset]>>
           /\ cfiles' = IF r.status = "ok" THEN [cfiles EXCEPT !.copy = <<r.file>>] ELSE cfiles
           /\ cres' = Result("to_binary", r.status, "copy", FALSE)
    /\ UNCHANGED <<creq, cobj, cst, ctampered>>
    /\ UNCHANGED <<jvars, evars, rvars, vvars, dvars, pvars, svars>>

CodecNext ==
    \/ CBuildInput
    \/ CInputToBinary
    \/ CBuildState
    \/ CStateToBinary
    \/ CEmbeddedToBinary
    \/ \E f \in {"input", "state"}, i \in 0..(VersionSize - 1) : CTamper(f, i)
    \/ \E f \in {"input", "state"}, r \in BOOLEAN : CFromBinary(f, r)
    \/ CLoadedToBinary

CodecSpec == CodecInit /\ [][CodecNext]_vars

\* ----------------------------------------------------------- version checks
\* versions a component can report: '0.0.0', the expected one and the next one
VersionValues(expected) == {0, expected, expected + 1}

VersionInit ==
    /\ JmIdle
    /\ EncoderIdle
    /\ InstancesIdle
    /\ ShrinkIdle
    /\ CodecIdle
    /\ EngineIdle
    /\ RetrieverIdle
    /\ VersionIdle
    /\ creq = AddRequest(1, -1)

\* sys.modules[mod].__version__ = v
VSetModuleVersion(i, v) ==
    /\ vmods' = [vmods EXCEPT ![i] = v]
    /\ UNCHANGED <<vhdr, vres>>
    /\ UNCHANGED <<jvars, cvars, evars, rvars, dvars, pvars, svars>>

\* assert_versions()
VAssertVersions ==
    /\ vres' = [op |-> "assert_versions",
                status |-> IF AssertVersionsPasses(vmods) THEN "ok" ELSE "ImportError",
                seen |-> vmods]
    /\ UNCHANGED <<vmods, vhdr>>
    /\ UNCHANGED <<jvars, cvars, evars, rvars, dvars, pvars, svars>>

\* xb_ver = XbVersion()
VNewXbVersion ==
    /\ vhdr = <<>>
    /\ vhdr' = <<ExpectedVersion>>
    /\ UNCHANGED <<vmods, vres>>
    /\ UNCHANGED <<jvars, cvars, evars, rvars, dvars, pvars, svars>>

\* xb_ver.<field i> = v
VSetHeaderField(i, v) ==
    /\ vhdr # <<>>
    /\ vhdr' = <<[vhdr[1] EXCEPT ![i] = v]>>
    /\ UNCHANGED <<vmods, vres>>
    /\ UNCHANGED <<jvars, cvars, evars, rvars, dvars, pvars, svars>>

\* xb_ver.assert_version()
VAssertVersion ==
    /\ vhdr # <<>>
    /\ vres' = [op |-> "assert_version",
                status |-> IF VersionMatches(vhdr[1]) THEN "ok" ELSE "ImportError",
                seen |-> vhdr[1]]
    /\ UNCHANGED <<vmods, vhdr>>
    /\ UNCHANGED <<jvars, cvars, evars, rvars, dvars, pvars, svars>>

VersionNext ==
    \/ \E i \in 1..NumDeps : \E v \in VersionValues(ExpectedModules[i]) : VSetModuleVersion(i, v)
    \/ VAssertVersions
    \/ VNewXbVersion
    \/ \E i \in 1..VersionSize : \E v \in VersionValues(ExpectedVersion[i]) : VSetHeaderField(i, v)
    \/ VAssertVersion

VersionSpec == VersionInit /\ [][VersionNext]_vars

\* ---------------------------------------------------------- tracking engine
\* The executable that tracks an input file.  It holds the input buffer in
\* memory, advances the state block at its end turn by turn, copies that
\* block to the checkpoint file at the configured interval and to the output
\* file at the end; on start it pastes an existing checkpoint over the state
\* block of the input.
EngineRequests ==
    [num_turns : {1, 2, 3}, ele_start : {0}, ele_stop : {-1}, checkpoint_every : {-1, 1, 2},
     line : {LineA, LineB}, particles : {ParticlesA, ParticlesB, ParticlesD},
     store_element_names : {FALSE}, source : {"particles"}, kwargs : {NoKwargs}]

EngineInit ==
    /\ JmIdle
    /\ EncoderIdle
    /\ InstancesIdle
    /\ ShrinkIdle
    /\ CodecIdle
    /\ EngineIdle
    /\ RetrieverIdle
    /\ VersionIdle
    /\ creq \in EngineRequests

\* the input file handed to the engine
EngineInputFile == InputToBinary(XbInputInit(creq)).file

\* a scalar field of the XbInput at offset 0 of the words w
InField(w, name) == WordAt([data |-> w], FieldOffset(XbInputFields, name))

StateOff(w) == InField(w, "xb_state")

TurnOf(w) == WordAt([data |-> w], StateOff(w) + FieldOffset(XbStateFields, "_i_turn"))

PartsOf(w) == ParticlesAt([data |-> w], StateOff(w) + FieldOffset(XbStateFields, "_particles"))

\* the state block: _xsize words from the state's offset
StateBlock(w) ==
    WordsAt([data |-> w], StateOff(w),
            WordAt([data |-> w], StateOff(w) + FieldOffset(XbStateFields, "_xsize")))

\* the words w with the state block replaced
PasteState(w, block) == WriteWords([data |-> w], StateOff(w), block).data

\* one turn for one particle: a live particle moves on and is lost once it
\* leaves the aperture; a lost particle stays as it is
TrackParticle(p) ==
    IF p.state <= 0 THEN p
    ELSE IF p.x + 1 > 6 THEN [x |-> p.x + 1, state |-> 0, at_turn |-> p.at_turn]
    ELSE [x |-> p.x + 1, state |-> p.state, at_turn |-> p.at_turn + 1]

TrackTurn(parts) == [i \in 1..Len(parts) |-> TrackParticle(parts[i])]

\* the buffer after one more turn
Tracked(w) ==
    LET t == WriteWords([data |-> w], StateOff(w) + FieldOffset(XbStateFields, "_i_turn"),
                        <<TurnOf(w) + 1>>)
    IN  WriteWords(t, StateOff(w) + FieldOffset(XbStateFields, "_particles"),
                   ParticleWords(TrackTurn(PartsOf(w)))).data

\* whether a checkpoint is written once the turn counter has reached turn
WritesCheckpoint(every, turn) == every > 0 /\ turn % every = 0

\* a snapshot that records the turn counter but keeps the particles of the input
TurnOnlyBlock(w) ==
    StateBlock(WriteWords([data |-> EngineInputFile],
                          StateOff(w) + FieldOffset(XbStateFields, "_i_turn"), <<TurnOf(w)>>).data)

\* what is written to the checkpoint file: the whole state block
CheckpointBlock(w) == StateBlock(w)

\* the checkpoint is ignored and tracking starts from the input's state
RestartFromInput(input, ckpt) == input

\* the buffer a starting process works on when a checkpoint file exists
ResumeFrom(input, ckpt) == PasteState(input, ckpt)

\* the process starts: it loads the input and, if there is one, the checkpoint
EStart ==
    /\ erun = "stopped"
    /\ ebuf' = <<IF eckpt # <<>> THEN ResumeFrom(EngineInputFile, eckpt[1]) ELSE EngineInputFile>>
    /\ erun' = "running"
    /\ estart' = [from |-> IF eckpt # <<>> THEN "checkpoint" ELSE "input", turn |-> TurnOf(ebuf'[1])]
    /\ UNCHANGED <<eckpt, eout, ekills>>
    /\ UNCHANGED <<jvars, cvars, rvars, vvars, dvars, pvars, svars>>

\* one turn is tracked and, at the interval, the checkpoint file is rewritten
ETrackTurn ==
    /\ erun = "running"
    /\ TurnOf(ebuf[1]) < InField(ebuf[1], "num_turns")
    /\ ebuf' = <<Tracked(ebuf[1])>>
    /\ eckpt' = IF WritesCheckpoint(InField(ebuf[1], "checkpoint_every"), TurnOf(ebuf'[1]))
                THEN <<CheckpointBlock(ebuf'[1])>>
                ELSE eckpt
    /\ UNCHANGED <<erun, eout, ekills, estart>>
    /\ UNCHANGED <<jvars, cvars, rvars, vvars, dvars, pvars, svars>>

\* all turns are done: the state block is written to the output file
EFinish ==
    /\ erun = "running"
    /\ TurnOf(ebuf[1]) >= InField(ebuf[1], "num_turns")
    /\ eout' = <<StateBlock(ebuf[1])>>
    /\ erun' = "done"
    /\ ebuf' = <<>>
    /\ UNCHANGED <<eckpt, ekills, estart>>
    /\ UNCHANGED <<jvars, cvars, rvars, vvars, dvars, pvars, svars>>

\* the process is killed; what it held in memory is lost, the files stay
EInterrupt ==
    /\ erun = "running"
    /\ ekills < MaxKills
    /\ erun' = "stopped"
    /\ ebuf' = <<>>
    /\ ekills' = ekills + 1
    /\ UNCHANGED <<eckpt, eout, estart>>
    /\ UNCHANGED <<jvars, cvars, rvars, vvars, dvars, pvars, svars>>

EngineNext ==
    \/ EStart
    \/ ETrackTurn
    \/ EFinish
    \/ EInterrupt

EngineSpec == EngineInit /\ [][EngineNext]_vars

\* --------------------------------------------------------- ResultRetriever
\* The result files of a job: the state after tracking, written by the codec
ResultFile(parts) ==
    StateToBinary([buf |-> BuildXbState(parts, MonitorLine(LineA), 1,
                                        NewBuffer(DefaultCapacity), FALSE).buf,
                   offset |-> 0]).file

\* a result file whose schema version is not the expected one
ForeignFile(words) == [words EXCEPT ![1] = 0]

\* the k-th job of the result pool: its files are named as JobManager.add
\* named the job's input files
ResultJob(k, job_name, parts, valid) ==
    [base |-> JobFileName(<<"u">>, (StartMs + k) * TicksPerMs),
     job_name |-> job_name, parts |-> parts, valid |-> valid]

\* the archives the server can have put into the output directory
PoolArchives ==
    <<[name |-> SubmitFileName(<<"u">>, <<"s">>, StartMs * TicksPerMs),
       jobs |-> <<ResultJob(1, <<"j", "1">>, ParticlesA.parts, TRUE),
                  ResultJob(2, <<"j", "2">>, ParticlesB.parts, TRUE)>>],
      [name |-> SubmitFileName(<<"u">>, <<"s">>, (StartMs + 1000) * TicksPerMs),
       jobs |-> <<ResultJob(3, <<"j", "3">>, ParticlesB.parts, TRUE)>>],
      [name |-> SubmitFileName(<<"u">>, <<"s">>, (StartMs + 2000) * TicksPerMs),
       jobs |-> <<ResultJob(4, <<"j", "4">>, ParticlesA.parts, TRUE),
                  ResultJob(5, <<"j", "5">>, ParticlesB.parts, FALSE),
                  ResultJob(6, <<"j", "6">>, ParticlesA.parts, TRUE)>>],
      [name |-> SubmitFileName(<<"u">>, <<"t">>, StartMs * TicksPerMs),
       jobs |-> <<ResultJob(7, <<"j", "7">>, ParticlesA.parts, TRUE)>>],
      [name |-> SubmitFileName(<<"u">>, <<"s", "_">>, StartMs * TicksPerMs),
       jobs |-> <<ResultJob(8, <<"j", "8">>, ParticlesA.parts, TRUE)>>]>>

RECURSIVE JobMembers(_)
\* the members of an archive holding the given jobs: a .json and a .bin per job
JobMembers(jobs) ==
    IF jobs = <<>> THEN <<>>
    ELSE LET j == Head(jobs)
             file == ResultFile(j.parts)
         IN  <<[name |-> j.base \o JsonExt,
                content |-> [kind |-> "json",
                             dict |-> [user |-> <<"u">>, job_name |-> j.job_name]]],
               [name |-> j.base \o BinExt,
                content |-> [kind |-> "bin",
                             words |-> IF j.valid THEN file ELSE ForeignFile(file)]]>>
             \o JobMembers(Tail(jobs))

\* the output directory holding the pool archives with the indices in S
DirOf(S) ==
    LET Named(n) == CHOOSE i \in S : PoolArchives[i].name = n
    IN  [n \in {PoolArchives[i].name : i \in S} |->
            [kind |-> "tar", members |-> JobMembers(PoolArchives[Named(n)].jobs)]]

RetrieveStudies == {<<"s">>, <<"t">>}

RetrieveInit ==
    /\ JmIdle
    /\ EncoderIdle
    /\ InstancesIdle
    /\ ShrinkIdle
    /\ CodecIdle
    /\ EngineIdle
    /\ VersionIdle
    /\ creq = AddRequest(1, -1)
    /\ rdir \in {DirOf(S) : S \in SUBSET (1..Len(PoolArchives))}
    /\ riter = [pc |-> "none", todo |-> <<>>, cur |-> 1]
    /\ rlog = <<>>
    /\ rcalls = 0

\* archives of the submitter, whatever the study
MatchesUser(name, user, study) == IsPrefix(user \o Delim, name)

\* the archive name matches {submitter}__{study}__*
MatchesStudy(name, user, study) == IsPrefix(user \o Delim \o study \o Delim, name)

Matching(dir, user, study) == {n \in DOMAIN dir : MatchesStudy(n, user, study)}

\* the orders in which a directory scan can list the archives in S
Orders(S) ==
    {q \in [1..Cardinality(S) -> S] : \A i, k \in 1..Cardinality(S) : i # k => q[i] # q[k]}

\* every listing of some of the archives that can be in the directory
ScanOrders ==
    UNION {Orders(S) : S \in SUBSET {PoolArchives[i].name : i \in 1..Len(PoolArchives)}}

IsBin(m) == m.content.kind = "bin"

\* names of the binary members of an archive, in archive order
BinNames(ar) ==
    LET bins == SelectSeq(ar.members, IsBin)
    IN  [i \in 1..Len(bins) |-> bins[i].name]

MemberContent(ar, name) ==
    ar.members[CHOOSE i \in 1..Len(ar.members) : ar.members[i].name = name].content

\* the metadata record with the base name of the binary member
Sibling(ar, bin) == MemberContent(ar, StripExt(bin, BinExt) \o JsonExt).dict

\* what iterate() does, as the caller sees it: the call itself (with the
\* archives its scan listed), a result, an error, the end of the iteration
Event(call, kind, order, archive, member, job_name, particles) ==
    [call |-> call, kind |-> kind, order |-> order, archive |-> archive, member |-> member,
     job_name |-> job_name, particles |-> particles]

\* one binary member is decoded: a result for the caller, or an error that
\* names the job
DecodeMember(call, archive, ar, bin) ==
    LET r == FromBinary(XbStateFields, MemberContent(ar, bin).words, 0, TRUE)
    IN  IF r.status = "ok"
        THEN Event(call, "yield", <<>>, archive, bin, Sibling(ar, bin).job_name,
                   StateAt(r.obj[1].buf, r.obj[1].offset).particles)
        ELSE Event(call, "error", <<>>, archive, bin, Sibling(ar, bin).job_name, <<>>)

\* the archive stays in the directory
KeepArchive(dir, name) == dir

\* an archive whose members have all been yielded is removed
RemoveArchive(dir, name) == Del(dir, name)

\* a member that fails validation is passed over
SkipPolicy == "skip"

\* a member that fails validation ends the iteration with an error
FailurePolicy == "raise"

RECURSIVE Advance(_, _, _, _)
\* one resumption of the generator: it runs until it has a result to yield,
\* an error to raise, or nothing left
Advance(call, dir, todo, cur) ==
    IF todo = <<>>
    THEN [dir |-> dir, todo |-> todo, cur |-> cur, pc |-> "ended",
          event |-> Event(call, "end", <<>>, <<>>, <<>>, <<>>, <<>>)]
    ELSE LET ar == dir[Head(todo)]
         IN  IF cur > Len(BinNames(ar))
             THEN Advance(call, RemoveArchive(dir, Head(todo)), Tail(todo), 1)
             ELSE LET e == DecodeMember(call, Head(todo), ar, BinNames(ar)[cur])
                  IN  IF e.kind = "yield"
                      THEN [dir |-> dir, todo |-> todo, cur |-> cur + 1, pc |-> "active",
                            event |-> e]
                      ELSE IF FailurePolicy = "raise"
                      THEN [dir |-> dir, todo |-> todo, cur |-> cur, pc |-> "failed",
                            event |-> e]
                      ELSE Advance(call, dir, todo, cur + 1)

\* iterate(user, study): the directory is scanned for the archives to read
RIterate(user, study, order) ==
    /\ riter.pc # "active"
    /\ rcalls < MaxIterations
    /\ order \in Orders(Matching(rdir, user, study))
    /\ rcalls' = rcalls + 1
    /\ riter' = [pc |-> "active", todo |-> order, cur |-> 1]
    /\ rlog' = Append(rlog, Event(rcalls', "call", order, <<>>, <<>>, study, <<>>))
    /\ UNCHANGED rdir
    /\ UNCHANGED <<jvars, cvars, evars, vvars, dvars, pvars, svars>>

\* the caller's loop asks for the next result
RNext ==
    /\ riter.pc = "active"
    /\ LET r == Advance(rcalls, rdir, riter.todo, riter.cur)
       IN  /\ rdir' = r.dir
           /\ riter' = [pc |-> r.pc, todo |-> r.todo, cur |-> r.cur]
           /\ rlog' = Append(rlog, r.event)
    /\ UNCHANGED rcalls
    /\ UNCHANGED <<jvars, cvars, evars, vvars, dvars, pvars, svars>>

RetrieveNext ==
    \/ \E u \in Users, s \in RetrieveStudies, order \in ScanOrders : RIterate(u, s, order)
    \/ RNext

RetrieveSpec == RetrieveInit /\ [][RetrieveNext]_vars

\* ------------------------------------------------- encoding, call after call
\* the requests encoded one after the other
EncodeRequests ==
    [num_turns : {1}, ele_start : {0}, ele_stop : {-1}, checkpoint_every : {-1},
     line : {LineA, LineB}, particles : {ParticlesA}, store_element_names : BOOLEAN,
     source : {"particles"}, kwargs : {NoKwargs}]

EncodeInit ==
    /\ JmIdle
    /\ EncoderIdle
    /\ InstancesIdle
    /\ ShrinkIdle
    /\ CodecIdle
    /\ EngineIdle
    /\ RetrieverIdle
    /\ VersionIdle
    /\ creq = AddRequest(1, -1)

\* XbInput(**req).to_binary(file) in the current process: the line metadata
\* of the line is built first, that of the monitors-only line with the state
DEncode(req) ==
    /\ Len(dlog) < MaxEncodings
    /\ XbInputRaises(req) = "ok"
    /\ dlog' = Append(dlog, [proc |-> dproc, req |-> req,
                             file |-> InputToBinary(XbInputInit(req)).file])
    /\ dstored' = [dstored EXCEPT ![dproc] =
                        StoreInCache(StoreInCache(@, req.line, req.store_element_names),
                                     MonitorLine(req.line), req.store_element_names)]
    /\ UNCHANGED dproc
    /\ UNCHANGED <<jvars, cvars, evars, rvars, vvars, pvars, svars>>

\* the next input is built in another process
DSwitch(p) ==
    /\ p # dproc
    /\ dproc' = p
    /\ UNCHANGED <<dstored, dlog>>
    /\ UNCHANGED <<jvars, cvars, evars, rvars, vvars, pvars, svars>>

EncodeNext ==
    \/ \E req \in EncodeRequests : DEncode(req)
    \/ \E p \in Processes : DSwitch(p)

EncodeSpec == EncodeInit /\ [][EncodeNext]_vars

\* ------------------------------------------- JobManager instances side by side
\* Several instances, in one process or in several, construct and submit to
\* the same target directory; the wall clock is the only thing they share.
InstancesInit ==
    /\ JmIdle
    /\ EncoderIdle
    /\ InstancesIdle
    /\ ShrinkIdle
    /\ CodecIdle
    /\ EngineIdle
    /\ RetrieverIdle
    /\ VersionIdle
    /\ creq = AddRequest(1, -1)

\* JobManager.__init__ of instance i, on the dev server with an afs user
PConstruct(i, user, study) ==
    /\ ~pinst[i].alive
    /\ JmConstructRaises(study, TRUE, TRUE, "afs", TRUE) = "ok"
    /\ pinst' = [pinst EXCEPT ![i] =
                    [alive |-> TRUE, user |-> user, domain |-> "afs", study_name |-> study,
                     line |-> TRUE, submit_file |-> SubmitFileName(user, study, pclock),
                     json_files |-> <<>>, bin_files |-> <<>>, submitted |-> FALSE]]
    /\ UNCHANGED <<ptarget, pclock, plost, pstaged, padd>>
    /\ UNCHANGED <<jvars, cvars, evars, rvars, vvars, dvars, svars>>

\* JobManager.add of instance i up to the end of sleep(0.001): the thread is
\* woken no earlier than one millisecond after the call
PAddSleep(i) ==
    /\ pinst[i].alive
    /\ ~AssertNotSubmittedRaises(pinst[i].submitted)
    /\ padd[i] = -1
    /\ Len(pinst[i].json_files) < MaxJobs
    /\ pclock + SleepTicks <= MaxClock
    /\ padd' = [padd EXCEPT ![i] = pclock + SleepTicks]
    /\ UNCHANGED <<pinst, ptarget, pclock, plost, pstaged>>
    /\ UNCHANGED <<jvars, cvars, evars, rvars, vvars, dvars, svars>>

\* JobManager.add of instance i from timestamp(ms=True) on: the job's two
\* files are written into the staging directory under the time of this
\* moment, replacing what is there, and are recorded
PAddWrite(i) ==
    /\ padd[i] >= 0
    /\ pclock >= padd[i]
    /\ LET filename == JobFileName(pinst[i].user, pclock)
           json_file == filename \o JsonExt
           bin_file == filename \o BinExt
       IN  /\ pstaged' = Put(Put(pstaged, json_file, [kind |-> "json", writer |-> i]),
                             bin_file, [kind |-> "bin", writer |-> i])
           /\ pinst' = [pinst EXCEPT ![i].json_files = @ \o <<json_file>>,
                                     ![i].bin_files = @ \o <<bin_file>>]
    /\ padd' = [padd EXCEPT ![i] = -1]
    /\ UNCHANGED <<ptarget, pclock, plost>>
    /\ UNCHANGED <<jvars, cvars, evars, rvars, vvars, dvars, svars>>

\* the directory without the files named
Unlinked(dir, names) ==
    [n \in DOMAIN dir \ {names[k] : k \in 1..Len(names)} |-> dir[n]]

\* JobManager.submit of instance i, called when no add() of the instance is
\* running and all its staged files exist: the archive is moved into the
\* target directory under the instance's file name, replacing what is there,
\* and the staged files are removed
PSubmit(i) ==
    /\ pinst[i].alive
    /\ padd[i] = -1
    /\ ~AssertNotSubmittedRaises(pinst[i].submitted)
    /\ DomainCanMove(pinst[i].domain)
    /\ \A k \in 1..Len(CleanupFiles(pinst[i])) : CleanupFiles(pinst[i])[k] \in DOMAIN pstaged
    /\ pstaged' = Unlinked(pstaged, CleanupFiles(pinst[i]))
    /\ ptarget' = Put(ptarget, pinst[i].submit_file, [kind |-> "tar", publisher |-> i])
    /\ plost' = IF pinst[i].submit_file \in DOMAIN ptarget
                THEN plost \cup {[name |-> pinst[i].submit_file,
                                  publisher |-> ptarget[pinst[i].submit_file].publisher,
                                  by |-> i]}
                ELSE plost
    /\ pinst' = [pinst EXCEPT ![i].submitted = MarkedSubmitted]
    /\ UNCHANGED <<pclock, padd>>
    /\ UNCHANGED <<jvars, cvars, evars, rvars, vvars, dvars, svars>>

\* time passes
PTick ==
    /\ pclock < MaxClock
    /\ pclock' = pclock + 1
    /\ UNCHANGED <<pinst, ptarget, plost, pstaged, padd>>
    /\ UNCHANGED <<jvars, cvars, evars, rvars, vvars, dvars, svars>>

InstancesNext ==
    \/ \E i \in Instances, u \in Users, s \in StudyNames : PConstruct(i, u, s)
    \/ \E i \in Instances : PAddSleep(i)
    \/ \E i \in Instances : PAddWrite(i)
    \/ \E i \in Instances : PSubmit(i)
    \/ PTick

InstancesSpec == InstancesInit /\ [][InstancesNext]_vars

\* ------------------------------------------------- shrinking a buffer
\* the members of S in increasing order
Ascending(S) ==
    CHOOSE q \in [1..Cardinality(S) -> S] : \A i, k \in 1..Cardinality(S) : i < k => q[i] < q[k]

\* the free chunks of a buffer of the given capacity whose free words are
\* those at the offsets in F: one chunk per run of free words, by offset
ChunksOf(F, capacity) ==
    LET starts == Ascending({o \in F : (o - 1) \notin F})
    IN  [i \in 1..Len(starts) |->
            [start |-> starts[i],
             end |-> CHOOSE e \in (starts[i] + 1)..capacity :
                        /\ e \notin F
                        /\ \A m \in starts[i]..(e - 1) : m \in F]]

\* the buffers handed to _shrink: every capacity up to MaxWords, every
\* placement of the free space, and in each word a value that tells it
\* from the other words
ShrinkBuffers ==
    {[data |-> [i \in 1..c[1] |-> 20 + i], chunks |-> ChunksOf(c[2], c[1])] :
        c \in {x \in (0..MaxWords) \X SUBSET (0..(MaxWords - 1)) : x[2] \subseteq 0..(x[1] - 1)}}

ShrinkInit ==
    /\ JmIdle
    /\ EncoderIdle
    /\ InstancesIdle
    /\ CodecIdle
    /\ EngineIdle
    /\ RetrieverIdle
    /\ VersionIdle
    /\ creq = AddRequest(1, -1)
    /\ sbuf \in ShrinkBuffers
    /\ sold = <<>>

\* a structure of the given words is stored in the buffer
SStore(ws) ==
    /\ Capacity(sbuf) <= MaxWords
    /\ sbuf' = Store(sbuf, ws).buf
    /\ sold' = <<>>
    /\ UNCHANGED <<jvars, cvars, evars, rvars, vvars, dvars, pvars>>

\* _shrink(buffer)
SShrink ==
    /\ sbuf' = Shrink(sbuf)
    /\ sold' = <<sbuf>>
    /\ UNCHANGED <<jvars, cvars, evars, rvars, vvars, dvars, pvars>>

ShrinkNext ==
    \/ \E ws \in {<<31>>, <<32, 33>>} : SStore(ws)
    \/ SShrink

ShrinkSpec == ShrinkInit /\ [][ShrinkNext]_vars

\* ------------------------------------------------------------------ claims
AddStep ==
    \E j \in JobNames, n \in TurnsSet, l \in BOOLEAN, c \in CheckpointSet,
       kw \in KwargsSet, el \in 0..1 :
        Add(j, n, l, c, kw, el)

\* C1: once submit() has returned normally, every add() call, whatever its
\* arguments, ends with ValueError and leaves the staging directory and the
\* instance's lists of staged files as they were.
C1_AddAfterSubmitFails ==
    [][(nSubmitOk > 0 /\ AddStep) =>
            /\ last' = [op |-> "add", result |-> "ValueError"]
            /\ fs' = fs
            /\ jm' = jm]_vars

C1_Witness ==
    /\ nSubmitOk > 0
    /\ last = [op |-> "add", result |-> "ValueError"]

\* C2: once submit() has returned normally, a further submit() call ends with
\* the same ValueError, writes nothing to the staging directory and leaves the
\* archive in the target directory untouched.
C2_SecondSubmitFails ==
    [][(nSubmitOk > 0 /\ SubmitCall) =>
            /\ last' = [op |-> "submit", result |-> "ValueError"]
            /\ fs' = fs
            /\ pc' = "idle"]_vars

C2_Witness ==
    /\ nSubmitOk > 0
    /\ last = [op |-> "submit", result |-> "ValueError"]
    /\ jm.submit_file \in DOMAIN fs.target

\* C3: whatever calls were made, failed ones and retries included, the target
\* directory holds at most one archive of the instance, and exactly one once a
\* submit() has returned normally.
C3_OneArchive ==
    /\ Cardinality(DOMAIN fs.target) <= 1
    /\ nSubmitOk > 0 => Cardinality(DOMAIN fs.target) = 1

C3_Witness ==
    /\ nSubmitOk > 0
    /\ faults > 0
    /\ nAdded > 0
    /\ Cardinality(DOMAIN fs.target) = 1

\* C4: an archive is never visible in the target directory, and never seen by
\* a scan of the consumer, before it has been closed with all its members: it
\* is built in the staging directory and arrives in one step.
C4_NoPartialArchive ==
    /\ \A n \in DOMAIN scan : scan[n].complete
    /\ \A n \in DOMAIN fs.target : fs.target[n].complete
    /\ pc = "tar" => /\ ArchiveName(jm, clock) \in DOMAIN fs.tmp
                     /\ ~fs.tmp[ArchiveName(jm, clock)].complete

C4_Witness ==
    /\ pc = "unlink"
    /\ \E n \in DOMAIN scan : Len(scan[n].members) >= 2

MemberNames(ar) == {ar.members[i].name : i \in 1..Len(ar.members)}

\* C5: after N successful add() calls and a successful submit() the published
\* archive has 2N members, N ending in .json and N in .bin, forming N pairs
\* with a common base name, and every member name starts with "<user>__".
C5_ArchiveMembers ==
    nSubmitOk > 0 =>
        /\ jm.submit_file \in DOMAIN fs.target
        /\ LET ar == fs.target[jm.submit_file]
               names == MemberNames(ar)
               jsons == {n \in names : IsSuffix(JsonExt, n)}
               bins == {n \in names : IsSuffix(BinExt, n)}
           IN  /\ Len(ar.members) = 2 * nAdded
               /\ Cardinality(names) = 2 * nAdded
               /\ Cardinality(jsons) = nAdded
               /\ Cardinality(bins) = nAdded
               /\ {StripExt(n, JsonExt) : n \in jsons} = {StripExt(n, BinExt) : n \in bins}
               /\ \A n \in names : IsPrefix(jm.user \o Delim, n)

C5_Witness ==
    /\ nSubmitOk > 0
    /\ nAdded = 2

\* C6: the jobs of any two successful add() calls are staged under different
\* base names, and the later base name sorts strictly after the earlier one.
C6_DistinctSortedNames ==
    \A i, j \in 1..Len(jm.json_files) :
        i < j =>
            /\ jm.json_files[i] # jm.json_files[j]
            /\ jm.bin_files[i] # jm.bin_files[j]
            /\ LexLess(StripExt(jm.json_files[i], JsonExt), StripExt(jm.json_files[j], JsonExt))
            /\ StripExt(jm.json_files[i], JsonExt) = StripExt(jm.bin_files[i], BinExt)

\* two add() calls back to back, the second one millisecond after the first
C6_Witness ==
    /\ Len(jm.json_files) = 2
    /\ clock = StartMs * TicksPerMs + 2 * SleepTicks

JsonRecords ==
    {fs.tmp[n].dict : n \in {m \in DOMAIN fs.tmp : fs.tmp[m].kind = "json"}}

\* C7: no study name and no job name containing "__" is accepted, so that the
\* instance's study name, every staged metadata record and the archive name
\* carry no identifier containing "__".
C7_NoDelimiterInIdentifiers ==
    /\ jm.alive => ~ContainsDelim(jm.study_name)
    /\ \A d \in JsonRecords : ~ContainsDelim(d.job_name) /\ ~ContainsDelim(d.study_name)

\* the file that from_binary was last called on has the expected version header
HeaderMatches(f) == WordsAt([data |-> cfiles[f][1]], 0, VersionSize) = ExpectedVersion

\* the monitors of the request: positions, sizes
RequestMonitorIndices(req) ==
    LET m == MonitorLine(req.line)
    IN  [i \in 1..Len(m.element_names) |-> IndexOf(req.line.element_names, m.element_names[i])]

\* C8: for every request from which an XbInput can be built, the input read
\* back by from_binary from the file written by to_binary has the scalar
\* fields, monitor arrays, line elements, element names and particles of the
\* input that was written, which are those of the request.
C8_InputRoundTrip ==
    (cres.op = "from_binary" /\ cres.file = "input" /\ cres.status = "ok") =>
        LET got == InputAt(cloaded[1].buf, cloaded[1].offset)
            org == InputAt(cobj[1].buf, cobj[1].offset)
        IN  /\ got = org
            /\ got.checkpoint_every = creq.checkpoint_every
            /\ got.num_turns \in {creq.num_turns, creq.num_turns + 1}
            /\ got.num_elements = Len(creq.line.element_names)
            /\ got.idx_monitors = RequestMonitorIndices(creq)
            /\ Len(got.size_monitors) = got.num_monitors
            /\ got.line_metadata.elements = LineElements(creq.line)
            /\ got.line_metadata.names =
                    (IF creq.store_element_names THEN creq.line.element_names ELSE <<>>)
            /\ got.xb_state.particles = creq.particles.parts
            /\ got.xb_state.monitors.elements = LineElements(MonitorLine(creq.line))

C8_Witness ==
    /\ cres.op = "from_binary"
    /\ cres.file = "input"
    /\ cres.status = "ok"
    /\ creq.line = LineB
    /\ creq.particles = ParticlesB
    /\ creq.store_element_names

\* C9: a file written by this codec (an input file or a state file) that is
\* read with from_binary and written again with to_binary gives a file equal
\* to the first one, word for word.
C9_RewriteIsIdentical ==
    (cfiles.copy # <<>> /\ cloaded # <<>>) =>
        (cloaded[1].kind \notin ctampered => cfiles.copy[1] = cfiles[cloaded[1].kind][1])

BuiltInput == InputAt(cobj[1].buf, cobj[1].offset)

StateOffset == WordAt(cobj[1].buf, cobj[1].offset + FieldOffset(XbInputFields, "xb_state"))

\* offsets of the blocks of a constructed XbInput that are not part of its
\* state: the structure, the two monitor arrays, the line metadata and the
\* elements of the line
InputBlockOffsets ==
    LET b == cobj[1].buf
        o == cobj[1].offset
        lm == WordAt(b, o + FieldOffset(XbInputFields, "line_metadata"))
    IN  {o, WordAt(b, o + FieldOffset(XbInputFields, "idx_monitors")),
            WordAt(b, o + FieldOffset(XbInputFields, "size_monitors")), lm}
        \cup {WordAt(b, lm + 2 * i + 1) : i \in 1..WordAt(b, lm)}

\* C14: in every constructed XbInput, built from particles or from a supplied
\* xb_state, the state's offset plus its recorded size is the length of the
\* buffer, and the structure, the monitor arrays, the line metadata and the
\* line's elements all lie before the state's offset.
C14_StateIsLastRegion ==
    cobj # <<>> =>
        /\ StateOffset + BuiltInput.xb_state.xsize = Capacity(cobj[1].buf)
        /\ \A o \in InputBlockOffsets : o < StateOffset

\* C15: every constructed XbInput has 0 <= ele_start <= num_elements and
\* 0 <= ele_stop <= num_elements, and either ele_start <= ele_stop, or
\* ele_stop <= ele_start and the stored num_turns is the requested one plus one.
C15_ElementRange ==
    cobj # <<>> =>
        LET inp == BuiltInput
        IN  /\ 0 <= inp.ele_start /\ inp.ele_start <= inp.num_elements
            /\ 0 <= inp.ele_stop /\ inp.ele_stop <= inp.num_elements
            /\ inp.num_elements = Len(creq.line.element_names)
            /\ \/ inp.ele_start <= inp.ele_stop /\ inp.num_turns = creq.num_turns
               \/ inp.ele_stop <= inp.ele_start /\ inp.num_turns = creq.num_turns + 1

\* an input that stops before the element it starts at
C15_Witness ==
    /\ cobj # <<>>
    /\ BuiltInput.ele_stop < BuiltInput.ele_start
    /\ BuiltInput.num_turns = creq.num_turns + 1

\* C16: in every constructed XbInput the two monitor arrays have num_monitors
\* items each, also when the caller passes its own values for these fields.
C16_MonitorArrays ==
    cobj # <<>> =>
        /\ Len(BuiltInput.idx_monitors) = BuiltInput.num_monitors
        /\ Len(BuiltInput.size_monitors) = BuiltInput.num_monitors

\* an input with one monitor, built by a caller who passed other values
C16_Witness ==
    /\ cobj # <<>>
    /\ creq.kwargs = CallerMonitors
    /\ BuiltInput.num_monitors = 1
    /\ BuiltInput.idx_monitors = <<1>>

\* the positions at which a sequence of versions differs from the expected one
Differing(seen, expected) == {i \in 1..Len(expected) : seen[i] # expected[i]}

\* C20: assert_versions passes exactly when every dependency module reports
\* its expected version, and XbVersion.assert_version exactly when the schema
\* version and every dependency version of the fingerprint are the expected
\* ones; in particular a single differing version, all others correct, makes
\* the check fail with ImportError.
C20_ExactVersions ==
    /\ vres.op = "assert_versions" =>
            vres.status = (IF Differing(vres.seen, ExpectedModules) = {} THEN "ok" ELSE "ImportError")
    /\ vres.op = "assert_version" =>
            vres.status = (IF Differing(vres.seen, ExpectedVersion) = {} THEN "ok" ELSE "ImportError")

\* assert_versions has failed on one module reporting a later version than
\* expected while all the others are correct
C20_Witness ==
    /\ vres.op = "assert_versions"
    /\ vres.status = "ImportError"
    /\ \E i \in 1..NumDeps :
            /\ Differing(vres.seen, ExpectedModules) = {i}
            /\ vres.seen[i] > ExpectedModules[i]

RECURSIVE RunTurns(_, _)
\* the buffer of a process that tracks n turns without being interrupted
RunTurns(w, n) == IF n = 0 THEN w ELSE RunTurns(Tracked(w), n - 1)

\* the output file of the uninterrupted run on the request's input
ReferenceOutput == StateBlock(RunTurns(EngineInputFile, InField(EngineInputFile, "num_turns")))

\* C11: whatever the interruptions and resumptions, the output file the
\* engine writes at the end is word for word the output file of an
\* uninterrupted run on the same input.
C11_SameOutputAsUninterrupted ==
    eout # <<>> => eout[1] = ReferenceOutput

\* a run that was interrupted twice and finished after resuming from a checkpoint
C11_Witness ==
    /\ eout # <<>>
    /\ ekills = MaxKills
    /\ estart.from = "checkpoint"
    /\ estart.turn < InField(EngineInputFile, "num_turns")
    /\ PartsOf(EngineInputFile) # PartsOf(RunTurns(EngineInputFile, 1))

\* C12: a process that starts while a checkpoint file exists works on the
\* state of the checkpoint, not on the turn-0 state of the input: its state
\* block is the checkpoint and its turn counter is the checkpoint's, which is
\* not 0; the rest of the input is as in the input file.
C12_ResumesFromCheckpoint ==
    [][(EStart /\ eckpt # <<>>) =>
            /\ StateBlock(ebuf'[1]) = eckpt[1]
            /\ TurnOf(ebuf'[1]) > 0
            /\ estart'.turn = TurnOf(ebuf'[1])
            /\ SubSeq(ebuf'[1], 1, StateOff(EngineInputFile))
                    = SubSeq(EngineInputFile, 1, StateOff(EngineInputFile))]_vars

\* a process that resumed at turn 2 from a checkpoint whose particles are not
\* those of the input
C12_Witness ==
    /\ erun = "running"
    /\ estart = [from |-> "checkpoint", turn |-> 2]
    /\ TurnOf(ebuf[1]) = 2
    /\ PartsOf(ebuf[1]) # PartsOf(EngineInputFile)

\* C13: with checkpoint_every = k > 0 in the request, every turn that brings
\* the turn counter to a multiple of k leaves in the checkpoint file the
\* complete state block of that moment; with a negative checkpoint_every
\* (the default -1) there is never a checkpoint file.
C13_CheckpointInterval ==
    [][/\ (ETrackTurn /\ creq.checkpoint_every > 0
                      /\ TurnOf(ebuf'[1]) % creq.checkpoint_every = 0) =>
                eckpt' = <<StateBlock(ebuf'[1])>>
       /\ creq.checkpoint_every < 0 => (eckpt = <<>> /\ eckpt' = <<>>)]_vars

\* a checkpoint of turn 2 written with checkpoint_every = 2
C13_Witness ==
    /\ creq.checkpoint_every = 2
    /\ eckpt # <<>>
    /\ erun = "running"
    /\ eckpt[1] = StateBlock(ebuf[1])
    /\ TurnOf(ebuf[1]) = 2

\* the jobs the server put into the archive of the given name
PoolJobs(name) ==
    PoolArchives[CHOOSE i \in 1..Len(PoolArchives) : PoolArchives[i].name = name].jobs

AllValid(name) == \A k \in 1..Len(PoolJobs(name)) : PoolJobs(name)[k].valid

OrderValid(order) == \A i \in 1..Len(order) : AllValid(order[i])

Outcome(kind, archive, member, job_name, particles) ==
    [kind |-> kind, archive |-> archive, member |-> member, job_name |-> job_name,
     particles |-> particles]

RECURSIVE ExpectedResults(_, _)
\* what an iteration over the archives in order is to hand to the caller,
\* from the k-th job of the first of them on: a result per job, then the end;
\* or the results up to the first job that fails validation, then its error
ExpectedResults(order, k) ==
    IF order = <<>> THEN <<Outcome("end", <<>>, <<>>, <<>>, <<>>)>>
    ELSE LET jobs == PoolJobs(Head(order))
         IN  IF k > Len(jobs) THEN ExpectedResults(Tail(order), 1)
             ELSE IF jobs[k].valid
             THEN <<Outcome("yield", Head(order), jobs[k].base \o BinExt, jobs[k].job_name,
                            jobs[k].parts)>> \o ExpectedResults(order, k + 1)
             ELSE <<Outcome("error", Head(order), jobs[k].base \o BinExt, jobs[k].job_name,
                            <<>>)>>

\* what call c has handed to the caller so far
Results(c) ==
    LET Of(e) == e.call = c /\ e.kind # "call"
        evs == SelectSeq(rlog, Of)
    IN  [i \in 1..Len(evs) |->
            Outcome(evs[i].kind, evs[i].archive, evs[i].member, evs[i].job_name,
                    evs[i].particles)]

Calls == {i \in 1..Len(rlog) : rlog[i].kind = "call"}

Complete(c) == c < rcalls \/ riter.pc # "active"

Yields == {i \in 1..Len(rlog) : rlog[i].kind = "yield"}

\* the generator was resumed after it handed out event i
Resumed(i) == i < Len(rlog) /\ rlog[i + 1].call = rlog[i].call

\* event i hands out the last job of its archive
LastOfArchive(i) ==
    LET jobs == PoolJobs(rlog[i].archive)
    IN  rlog[i].member = jobs[Len(jobs)].base \o BinExt

ValidCallsAsExpected ==
    \A i \in Calls :
        OrderValid(rlog[i].order) =>
            /\ IsPrefix(Results(rlog[i].call), ExpectedResults(rlog[i].order, 1))
            /\ Complete(rlog[i].call) =>
                    Results(rlog[i].call) = ExpectedResults(rlog[i].order, 1)

\* C18: an iterate(submitter, study) call lists exactly the archives of the
\* directory whose name starts with "<submitter>__<study>__"; when their M
\* jobs are all valid, the call hands out, in the order of the listing, one
\* result per binary member, carrying the job name of the metadata record
\* with the same base name and the particles of the decoded state, and after
\* these M results it ends.
C18_YieldsEveryJob ==
    [][/\ rcalls' # rcalls =>
            {riter'.todo[i] : i \in 1..Len(riter'.todo)} =
                {n \in DOMAIN rdir :
                    \E u \in Users :
                        IsPrefix(u \o Delim \o rlog'[Len(rlog')].job_name \o Delim, n)}
       /\ ValidCallsAsExpected']_vars

\* a complete iteration over two archives that yielded their three jobs
C18_Witness ==
    /\ rcalls = 1
    /\ riter.pc = "ended"
    /\ Len(rlog[1].order) = 2
    /\ Len(Results(1)) = 4
    /\ Results(1)[3].kind = "yield"
    /\ Len(Results(1)[2].particles) = 2

\* C19: a member that fails version validation is never yielded, and the
\* iteration that meets it does not pass over it: what the call hands out is
\* the results of the jobs before it and then an error naming that job, after
\* which the call hands out nothing more.
C19_FailureIsReported ==
    /\ \A i \in Yields :
            \E k \in 1..Len(PoolJobs(rlog[i].archive)) :
                /\ PoolJobs(rlog[i].archive)[k].base \o BinExt = rlog[i].member
                /\ PoolJobs(rlog[i].archive)[k].valid
    /\ \A i \in Calls :
            ~OrderValid(rlog[i].order) =>
                /\ IsPrefix(Results(rlog[i].call), ExpectedResults(rlog[i].order, 1))
                /\ Complete(rlog[i].call) =>
                        Results(rlog[i].call) = ExpectedResults(rlog[i].order, 1)

\* an iteration that yielded a job and then failed on the next member of the
\* same archive, naming its job
C19_Witness ==
    /\ riter.pc = "failed"
    /\ Len(rlog) >= 3
    /\ rlog[Len(rlog)].kind = "error"
    /\ rlog[Len(rlog)].job_name = <<"j", "5">>
    /\ rlog[Len(rlog) - 1].kind = "yield"
    /\ rlog[Len(rlog) - 1].archive = rlog[Len(rlog)].archive

\* every file recorded in the instance's lists of staged files
RecordedFiles == {jm.json_files[i] : i \in 1..Len(jm.json_files)} \cup
                 {jm.bin_files[i] : i \in 1..Len(jm.bin_files)}

WrittenBuffer ==
    IF cres.file = "input" THEN cobj[1].buf
    ELSE IF cres.file = "state" THEN cst[1].buf
    ELSE IF cres.file = "embedded" THEN cobj[1].buf
    ELSE cloaded[1].buf

\* C23: every file written by to_binary comes from a buffer without free
\* capacity: the file is as long as what the buffer holds.
C23_NoFreeCapacityWritten ==
    (cres.op = "to_binary" /\ cres.status = "ok") =>
        /\ GetFree(WrittenBuffer) = 0
        /\ Len(cfiles[cres.file][1]) = Capacity(WrittenBuffer) - GetFree(WrittenBuffer)

\* the turn counter and the particles of a state block
BlockTurn(block) == block[FieldOffset(XbStateFields, "_i_turn") + 1]

BlockParts(block) == ParticlesAt([data |-> block], FieldOffset(XbStateFields, "_particles"))

\* the input and every state written so far agree with C24
TurnsAsExpected ==
    /\ TurnOf(EngineInputFile) = 0
    /\ ebuf # <<>> => TurnOf(ebuf[1]) <= InField(EngineInputFile, "num_turns")
    /\ eout # <<>> =>
        /\ BlockTurn(eout[1]) = InField(EngineInputFile, "num_turns")
        /\ \A i \in 1..Len(BlockParts(eout[1])) :
                BlockParts(eout[1])[i].state > 0 =>
                    BlockParts(eout[1])[i].at_turn = BlockTurn(eout[1])

\* the counter held by a running process and the one in the checkpoint file
\* do not go down
TurnsDoNotDecrease ==
    /\ (ebuf # <<>> /\ ebuf' # <<>>) => TurnOf(ebuf'[1]) >= TurnOf(ebuf[1])
    /\ eckpt # <<>> => (eckpt' # <<>> /\ BlockTurn(eckpt'[1]) >= BlockTurn(eckpt[1]))

C25_DistinctArchiveNames ==
    /\ \A i, k \in Instances :
            (i # k /\ pinst[i].alive /\ pinst[k].alive) =>
                pinst[i].submit_file # pinst[k].submit_file
    /\ plost = {}

\* what holds of an instance without staged jobs: once submit() has returned,
\* one complete archive without members is in the target directory and the
\* instance is submitted; and submit() fails only for a reason that has
\* nothing to do with the number of jobs
ZeroJobsSubmitted ==
    jm.json_files = <<>> =>
        /\ nSubmitOk > 0 =>
                /\ jm.submitted
                /\ DOMAIN fs.target = {jm.submit_file}
                /\ fs.target[jm.submit_file].complete
                /\ fs.target[jm.submit_file].members = <<>>
        /\ (last.op = "submit" /\ last.result \notin {"ok", "running"}) =>
                \/ last.result = "OSError" /\ faults > 0
                \/ last.result = "ValueError" /\ (jm.submitted \/ ~DomainCanMove(jm.domain))

\* C26: submit() on an instance with zero staged jobs succeeds: it publishes
\* one archive with zero members and the instance is submitted, so that an
\* add() that follows fails.
C26_EmptySubmit ==
    /\ []ZeroJobsSubmitted
    /\ [][(jm.json_files = <<>> /\ nSubmitOk > 0 /\ AddStep) =>
                last' = [op |-> "add", result |-> "ValueError"]]_vars

C26_Witness ==
    /\ jm.json_files = <<>>
    /\ nSubmitOk > 0
    /\ fs.target[jm.submit_file].members = <<>>
    /\ last = [op |-> "add", result |-> "ValueError"]

\* the submitted flag stands for an archive that has arrived: complete, in the
\* target directory, under the instance's file name
FlagMeansPublished ==
    /\ ~jm.alive => ~jm.submitted
    /\ jm.submitted =>
            /\ jm.submit_file \in DOMAIN fs.target
            /\ fs.target[jm.submit_file].complete
            /\ Len(fs.target[jm.submit_file].members) = Len(StagedFiles(jm))

\* a constructor that returns leaves the flag false; add() never changes the
\* flag, and leaves it false whenever it returns
FlagAfterCalls ==
    /\ (~jm.alive /\ jm'.alive) => ~jm'.submitted
    /\ AddStep => /\ jm'.submitted = jm.submitted
                  /\ last'.result = "ok" => ~jm'.submitted

WrongDomain == jm.alive /\ jm.domain \notin {"eos", "afs"}

\* with a wrong domain nothing ever reaches the target directory, the instance
\* is never submitted and every staged file stays in the staging directory
WrongDomainKeepsAll ==
    WrongDomain =>
        /\ fs.target = NoFiles
        /\ ~jm.submitted
        /\ RecordedFiles \subseteq DOMAIN fs.tmp
        /\ last.op = "submit" => last.result \in {"running", "ValueError"}

\* with a wrong domain submit() is not refused on entry, and an add() with
\* arguments that are in order returns normally, before and after a failed
\* submit()
WrongDomainStaysCallable ==
    WrongDomain =>
        /\ SubmitCall => pc' = "tar"
        /\ \A j \in JobNames, n \in TurnsSet, l \in BOOLEAN, c \in CheckpointSet,
              kw \in KwargsSet, el \in 0..1 :
                (/\ Add(j, n, l, c, kw, el)
                 /\ ~ContainsDelim(j)
                 /\ l \/ jm.line
                 /\ XbInputRaises(AddRequest(n, c)) = "ok")
                    => /\ last' = [op |-> "add", result |-> "ok"]
                       /\ Len(jm'.json_files) = Len(jm.json_files) + 1

\* C28: when submit() fails because the user's domain is neither 'eos' nor
\* 'afs', nothing appears in the target directory, the instance stays
\* not-submitted, every staged metadata and binary file is kept, and add()
\* and submit() can still be called.
C28_WrongDomain == []WrongDomainKeepsAll /\ [][WrongDomainStaysCallable]_vars

\* submit() failed on the domain with one job staged (the archive it built is
\* still in the staging directory) and the add() that followed staged a
\* second job
C28_Witness ==
    /\ WrongDomain
    /\ pc = "idle"
    /\ last = [op |-> "add", result |-> "ok"]
    /\ Len(jm.json_files) = 2
    /\ jm.submit_file \in DOMAIN fs.tmp
    /\ Len(fs.tmp[jm.submit_file].members) = 2
    /\ fs.target = NoFiles

\* C29: an add() that raises leaves the instance's lists of staged files and
\* the staging directory as they were.
C29_FailedAddLeavesNothing ==
    [][(AddStep /\ last'.result # "ok") => (jm' = jm /\ fs' = fs)]_vars

\* the time stamps an archive name can carry
ArchiveTimestamps == {Timestamp(t, FALSE) : t \in (StartMs * TicksPerMs)..MaxClock}

\* C30: for every study name the constructor accepts, splitting the archive
\* file name (without its extension) on "__" gives the user, the study name
\* and the time stamp.
C30_ArchiveNameSplits ==
    jm.alive =>
        \E ts \in ArchiveTimestamps :
            SplitDelim(StripExt(jm.submit_file, TarExt)) = <<jm.user, jm.study_name, ts>>

\* an XbInput exists only for a request with exactly one of particles, xb_state
OneSourceWhenBuilt == cobj # <<>> => creq.source \in {"particles", "xb_state"}

\* a call with both or with neither raises ValueError and leaves no object
BadSourceRaises ==
    (CBuildInput /\ creq.source \in {"both", "neither"}) =>
        (cres'.status = "ValueError" /\ cobj' = <<>>)

\* C31: XbInput construction succeeds only when exactly one of particles and
\* xb_state is given; giving both raises ValueError, giving neither raises
\* ValueError, and in both cases no XbInput object results.
C31_ExactlyOneSource == []OneSourceWhenBuilt /\ [][BadSourceRaises]_vars

\* a call without particles and without xb_state has raised
C31_Witness ==
    /\ creq.source = "neither"
    /\ cres = Result("init", "ValueError", "none", FALSE)
    /\ cobj = <<>>
    /\ cst = <<>>

\* the index i is a position of the line of the request, or one past its end
InLine(i) == 0 <= i /\ i <= Len(creq.line.element_names)

\* C32: an XbInput is constructed only from an ele_start within
\* [0, num_elements] and an ele_stop that is within [0, num_elements] or is
\* the end-of-line value -1, and the stored ele_start is the one asked for;
\* every other index aborts the construction.
C32_MalformedIndexRejected ==
    cobj # <<>> =>
        /\ InLine(creq.ele_start)
        /\ creq.ele_stop = -1 \/ InLine(creq.ele_stop)
        /\ StartAt(creq) < 0 => BuiltInput.ele_start = creq.ele_start

\* the fields of the XbInput built from the request r
InputOf(r) == InputAt(XbInputInit(r).buf, XbInputInit(r).offset)

\* the XbInput built from r ends with the same requested turns and the same
\* stored positions as the one that was constructed
SameTurnsAndPositions(r) ==
    /\ XbInputRaises(r) = "ok"
    /\ r.num_turns = creq.num_turns
    /\ InputOf(r).ele_start = BuiltInput.ele_start
    /\ InputOf(r).ele_stop = BuiltInput.ele_stop

\* C33: two successful constructions with the same requested num_turns that
\* end with the same stored ele_start and ele_stop store the same num_turns,
\* however ele_start and ele_stop were given.
C33_ExtraTurnFromStoredPositions ==
    cobj # <<>> =>
        \A r \in PositionRequests :
            SameTurnsAndPositions(r) => InputOf(r).num_turns = BuiltInput.num_turns

\* to_binary is called on a structure that does not start at offset 0
ToBinaryOffZero ==
    \/ CInputToBinary /\ cobj[1].offset # 0
    \/ CStateToBinary /\ cst[1].offset # 0
    \/ CEmbeddedToBinary /\ EmbeddedState.offset # 0
    \/ CLoadedToBinary /\ cloaded[1].offset # 0

\* C34: to_binary on a structure that does not start at offset 0 of its
\* buffer fails with an assertion error and no file is created or changed.
C34_ToBinaryOffZero ==
    [][ToBinaryOffZero => (cres'.status = "AssertionError" /\ cfiles' = cfiles)]_vars

\* to_binary on the state inside an XbInput built from particles has failed
C34_Witness ==
    /\ cobj # <<>>
    /\ creq.source = "particles"
    /\ EmbeddedState.offset > 0
    /\ cres = Result("to_binary", "AssertionError", "embedded", FALSE)
    /\ cfiles.embedded = <<>>

\* C35: from_binary called with raise_version_error=False on a file whose
\* version header does not match returns None and no object; on a matching
\* header it returns the object decoded from the bytes of the file, with or
\* without the flag.
C35_QuietMismatchReturnsNone ==
    cres.op = "from_binary" =>
        IF HeaderMatches(cres.file)
        THEN /\ cres.status = "ok"
             /\ cloaded # <<>>
             /\ cloaded[1].kind = cres.file
             /\ cloaded[1].offset = 0
             /\ cloaded[1].buf.data = cfiles[cres.file][1]
        ELSE ~cres.raise => (cres.status = "None" /\ cloaded = <<>>)

\* from_binary without the flag was called on a file with a changed header
C35_Witness ==
    /\ cres.op = "from_binary"
    /\ ~cres.raise
    /\ cres.file \in ctampered
    /\ ~HeaderMatches(cres.file)
    /\ cres.status = "None"
    /\ cloaded = <<>>

\* the positions of the line, counted from 0, at which a monitor sits
MonitorPositions(line) ==
    {i \in 0..(Len(line.element_names) - 1) : LineElements(line)[i + 1].kind = MonitorKind}

\* the items of idxs are the members of S in increasing order
Enumerates(idxs, S) ==
    /\ Len(idxs) = Cardinality(S)
    /\ {idxs[i] : i \in 1..Len(idxs)} = S
    /\ \A i \in 1..(Len(idxs) - 1) : idxs[i] < idxs[i + 1]

\* C36: in every constructed XbInput idx_monitors lists every position of the
\* line at which a monitor sits, in increasing order; size_monitors[i] is the
\* size of the monitor at idx_monitors[i]; and the state's monitor line holds
\* the monitors of those positions in that order.
C36_MonitorPositions ==
    cobj # <<>> =>
        LET inp == BuiltInput
            elems == LineElements(creq.line)
        IN  /\ Enumerates(inp.idx_monitors, MonitorPositions(creq.line))
            /\ Len(inp.size_monitors) = Len(inp.idx_monitors)
            /\ \A i \in 1..Len(inp.idx_monitors) :
                    inp.size_monitors[i] = KindSize(elems[inp.idx_monitors[i] + 1].kind)
            /\ inp.xb_state.monitors.elements =
                    [i \in 1..Len(inp.idx_monitors) |-> elems[inp.idx_monitors[i] + 1]]

\* the staged jobs of all instances: which instance, which of its jobs
StagedJobs == {<<i, k>> : i \in Instances, k \in 1..MaxJobs}

\* the base name of job k of instance i
BaseName(i, k) == StripExt(pinst[i].json_files[k], JsonExt)

\* C37: no two staged jobs of JobManager instances of the same user that
\* run add() at the same time get the same base name, so every job's staged
\* files are written by its own add().
C37_DistinctJobNames ==
    /\ \A a, b \in StagedJobs :
            (/\ a # b
             /\ a[2] <= Len(pinst[a[1]].json_files)
             /\ b[2] <= Len(pinst[b[1]].json_files)) =>
                BaseName(a[1], a[2]) # BaseName(b[1], b[2])
    /\ \A i \in Instances :
            ~pinst[i].submitted =>
                \A k \in 1..Len(pinst[i].json_files) :
                    /\ pinst[i].json_files[k] \in DOMAIN pstaged
                    /\ pstaged[pinst[i].json_files[k]].writer = i

\* the archives of the pool that were submitted under the given user and study
SubmittedUnder(user, study) ==
    {SubmitFileName(user, study, (StartMs + 1000 * k) * TicksPerMs) : k \in 0..2}

\* the study that call c of iterate() asked for
StudyOfCall(c) ==
    rlog[CHOOSE k \in 1..Len(rlog) : rlog[k].kind = "call" /\ rlog[k].call = c].job_name

\* C38: iterate(submitter, study) yields jobs only from, and removes only,
\* archives that were submitted under that submitter and that study, for
\* every pair of study names the JobManager constructor accepts.
C38_OnlyOwnStudy ==
    \A i \in 1..Len(rlog) :
        /\ rlog[i].kind = "yield" =>
                rlog[i].archive \in SubmittedUnder(<<"u">>, StudyOfCall(rlog[i].call))
        /\ rlog[i].kind = "call" =>
                \A k \in 1..Len(rlog[i].order) :
                    rlog[i].order[k] \notin DOMAIN rdir =>
                        rlog[i].order[k] \in SubmittedUnder(<<"u">>, rlog[i].job_name)

\* the offsets of buffer b that lie in none of its free chunks
Occupied(b) ==
    {o \in 0..(Capacity(b) - 1) :
        \A i \in 1..Len(b.chunks) : o < b.chunks[i].start \/ o >= b.chunks[i].end}

\* C39: _shrink leaves the buffer with no free capacity and with the old
\* capacity minus the old free space, keeps every occupied word at its
\* offset wherever the free chunks were, and a second call changes nothing.
C39_ShrinkKeepsOccupied ==
    sold # <<>> =>
        /\ GetFree(sbuf) = 0
        /\ Capacity(sbuf) = Capacity(sold[1]) - GetFree(sold[1])
        /\ \A o \in Occupied(sold[1]) : o < Capacity(sbuf) /\ WordAt(sbuf, o) = WordAt(sold[1], o)
        /\ Shrink(sbuf) = sbuf

====
